---------------------------- MODULE Spec2Model ----------------------------
(***************************************************************************)
(* Home Connect device session (HCDevice): the session state machine       *)
(* (handle_message / reconnect / get), the outgoing command validators     *)
(* (test_feature / test_program_data) and the feature registry.            *)
(*                                                                         *)
(* Execution contexts:                                                     *)
(*   - the receive context, which runs handle_message for each inbound     *)
(*     frame (run_forever/_on_message) and the open/close callbacks;       *)
(*   - one negotiation thread per handled /ei/initialValues handshake      *)
(*     (threading.Thread(target=self.reconnect));                          *)
(*   - a host caller of the public get() method.                           *)
(* No lock protects session_id / tx_msg_id, so the contexts interleave at  *)
(* every statement that touches them.                                      *)
(***************************************************************************)
EXTENDS Integers, Sequences, FiniteSets, TLC

(***************************************************************************)
(* Bounds of the explored environment                                      *)
(***************************************************************************)
\* handshake frames the appliance sends during one HCDevice lifetime
MaxHandshakes == 1
\* get() calls made by the host caller
MaxHostCalls == 1
\* transport closes
MaxCloses == 1

(***************************************************************************)
(* Python values                                                           *)
(***************************************************************************)
\* Python None for the integer-valued fields session_id and tx_msg_id
None == -1
\* Python None for the string-valued field token
NoToken == "None"

PyInt(n) == [t |-> "int", v |-> n]
PyStr(s) == [t |-> "str", s |-> s]
PyBool(b) == [t |-> "bool", b |-> b]
PyNone == [t |-> "none"]
\* a dict received as a value: its keys in insertion order, and its items
PyDict(keys, at) == [t |-> "dict", keys |-> keys, at |-> at]

\* isinstance(x, int): bool is a subclass of int
IsInstanceInt(x) == x.t \in {"int", "bool"}

\* str(x)
Str(x) ==
  CASE x.t = "int" -> ToString(x.v)
    [] x.t = "bool" -> (IF x.b THEN "True" ELSE "False")
    [] x.t = "none" -> "None"
    [] OTHER -> x.s

\* bool(x), as 'if x:' tests it
Truthy(x) ==
  CASE x.t = "int" -> x.v # 0
    [] x.t = "bool" -> x.b
    [] x.t = "str" -> x.s # ""
    [] x.t = "none" -> FALSE
    [] OTHER -> TRUE

\* the numeric value Python compares with (True == 1, False == 0)
Num(x) == IF x.t = "bool" THEN (IF x.b THEN 1 ELSE 0) ELSE x.v

\* str.lower() on the access levels, name segments and labels that occur
Lower(s) ==
  CASE s = "readWrite" -> "readwrite"
    [] s = "READWRITE" -> "readwrite"
    [] s = "readOnly" -> "readonly"
    [] s = "READONLY" -> "readonly"
    [] s = "writeOnly" -> "writeonly"
    [] s = "WRITEONLY" -> "writeonly"
    [] s = "BSH" -> "bsh"
    [] s = "Common" -> "common"
    [] s = "Cooking" -> "cooking"
    [] s = "Dishcare" -> "dishcare"
    [] s = "Dishwasher" -> "dishwasher"
    [] s = "Setting" -> "setting"
    [] s = "Status" -> "status"
    [] s = "Program" -> "program"
    [] s = "PowerState" -> "powerstate"
    [] s = "ChildLock" -> "childlock"
    [] s = "Level" -> "level"
    [] s = "DoorState" -> "doorstate"
    [] s = "Eco50" -> "eco50"
    [] s = "Off" -> "off"
    [] s = "On" -> "on"
    [] s = "Open" -> "open"
    [] s = "Closed" -> "closed"
    [] s = "Present" -> "present"
    [] s = "Confirmed" -> "confirmed"
    [] s = "Mode" -> "mode"
    [] s = "Light" -> "light"
    [] s = "Event" -> "event"
    [] s = "Active" -> "active"
    [] s = "Auto" -> "auto"
    [] OTHER -> s

\* int(x) for a descriptor bound: an int, or a decimal string
IntOf(x) ==
  IF x.t = "str" THEN CHOOSE n \in -99..99 : ToString(n) = x.s ELSE Num(x)

\* a dotted name is kept as the sequence of its segments: name.split(".")
\* '".Program." in name': some segment other than the first and the last
\* is "Program"
HasProgramMarker(name) ==
  \E i \in 2..(Len(name) - 1) : name[i] = "Program"

(***************************************************************************)
(* Feature registry (device.get("features")): uid string -> descriptor.    *)
(* A descriptor is a record with any of the fields name, access, values,   *)
(* min, max, available.                                                    *)
(***************************************************************************)
InitialFeatures ==
  ( "1" :> [name |-> <<"BSH", "Common", "Setting", "PowerState">>,
            access |-> "readWrite",
            values |-> ("1" :> "Off" @@ "2" :> "On")]
  @@ "2" :> [name |-> <<"Cooking", "Common", "Setting", "Level">>,
             access |-> "READWRITE",
             min |-> PyStr("0"), max |-> PyInt(3)]
  @@ "3" :> [name |-> <<"BSH", "Common", "Status", "DoorState">>,
             access |-> "readOnly",
             values |-> ("0" :> "Open" @@ "1" :> "Closed")]
  @@ "4" :> [name |-> <<"Dishcare", "Dishwasher", "Program", "Eco50">>,
             access |-> "readWrite"]
  @@ "5" :> [name |-> <<"BSH", "Common", "Setting", "ChildLock">>,
             access |-> "readWrite",
             values |-> ("0" :> "Off" @@ "1" :> "On")] )

\* outcome of a validator
Accept == "accept"
Reject == "raise"

\* mutant: the option uids are not looked up
ProgramEntryOk_NoOptions(feats, data) ==
  /\ "program" \in DOMAIN data
  /\ IsInstanceInt(data.program)
  /\ Str(data.program) \in DOMAIN feats
  /\ LET feature == feats[Str(data.program)] IN
       "name" \in DOMAIN feature => HasProgramMarker(feature.name)

\* test_program_data: one entry of data_array
ProgramEntryOk(feats, data) ==
  /\ "program" \in DOMAIN data
  /\ IsInstanceInt(data.program)
  /\ Str(data.program) \in DOMAIN feats
  /\ LET feature == feats[Str(data.program)] IN
       /\ ("name" \in DOMAIN feature => HasProgramMarker(feature.name))
       /\ ("options" \in DOMAIN data =>
             \A i \in 1..Len(data.options) :
                \* option["uid"] raises KeyError on an option without uid
                /\ "uid" \in DOMAIN data.options[i]
                /\ Str(data.options[i].uid) \in DOMAIN feats)

test_program_data(feats, data_array) ==
  IF \A i \in 1..Len(data_array) : ProgramEntryOk(feats, data_array[i])
  THEN Accept ELSE Reject

\* test_feature: one entry of data_array; dbg is self.debug
FeatureEntryOk(dbg, feats, data) ==
  /\ "uid" \in DOMAIN data
  /\ IsInstanceInt(data.uid)
  /\ "value" \in DOMAIN data
  /\ Str(data.uid) \in DOMAIN feats
  /\ LET feature == feats[Str(data.uid)] IN
       \* the debug line subscripts feature['name']: KeyError without a name
       /\ (dbg => "name" \in DOMAIN feature)
       /\ "access" \in DOMAIN feature
       /\ Lower(feature.access) \in {"readwrite", "writeonly"}
       /\ ("values" \in DOMAIN feature =>
             /\ IsInstanceInt(data.value)
             /\ Str(data.value) \in DOMAIN feature.values)
       /\ ("min" \in DOMAIN feature =>
             \* feature["max"] raises KeyError when only min is declared
             /\ "max" \in DOMAIN feature
             /\ IsInstanceInt(data.value)
             /\ Num(data.value) >= IntOf(feature.min)
             /\ Num(data.value) <= IntOf(feature.max))

test_feature(dbg, feats, data_array) ==
  IF \A i \in 1..Len(data_array) : FeatureEntryOk(dbg, feats, data_array[i])
  THEN Accept ELSE Reject

(***************************************************************************)
(* Value codec (parse_values_new): a batch of {uid, value} entries decoded *)
(* into a tree keyed by the lower-cased segments of the feature names.     *)
(* A tree is a function from keys to subtrees and leaves; a leaf is a      *)
(* Python value.                                                           *)
(***************************************************************************)
\* an exception leaving the codec
Fault == [t |-> "raise"]
IsFault(x) == "t" \in DOMAIN x /\ x.t = "raise"

\* isinstance(x, dict) for what the codec builds and receives
IsDict(x) == "t" \notin DOMAIN x

\* name.split(".").pop()
LastOf(name) == name[Len(name)]

\* name.lower()
LowerName(name) == [i \in 1..Len(name) |-> Lower(name[i])]

\* _get_program_name: the last segment of the name of feature _program_nr,
\* or the fallback
get_program_name(feats, nr, fallback) ==
  IF Str(nr) \in DOMAIN feats /\ "name" \in DOMAIN feats[Str(nr)]
  THEN LastOf(feats[Str(nr)].name)
  ELSE fallback

RECURSIVE decode_list_of_uids(_, _)
\* _decode_list_of_uids: {last name segment: value}; a uid without a named
\* descriptor makes _name None and _name.split raises AttributeError
decode_list_of_uids(feats, l) ==
  IF Len(l) = 0 THEN <<>>
  ELSE LET e == l[Len(l)]
           front == decode_list_of_uids(feats, SubSeq(l, 1, Len(l) - 1))
           uid == IF "uid" \in DOMAIN e THEN Str(e.uid) ELSE "None"
       IN IF IsFault(front) THEN Fault
          ELSE IF ~(uid \in DOMAIN feats /\ "name" \in DOMAIN feats[uid]) THEN Fault
          ELSE (LastOf(feats[uid].name) :>
                  (IF "value" \in DOMAIN e THEN e.value ELSE PyNone)) @@ front

\* res_value.update({'options': _decode_list_of_uids(options)}), under
\* 'if options and isinstance(options, list)'
WithOptions(feats, res, d) ==
  IF "options" \in DOMAIN d /\ Len(d.options) > 0
  THEN LET o == decode_list_of_uids(feats, d.options)
       IN IF IsFault(o) THEN Fault ELSE ("options" :> o) @@ res
  ELSE res

\* res_value.update({'program': _get_program_name(program, str(program))}),
\* under 'if program'
WithProgram(feats, res, d) ==
  IF "program" \in DOMAIN d /\ Truthy(d.program)
  THEN ("program" :> PyStr(get_program_name(feats, d.program, Str(d.program))))
       @@ res
  ELSE res

RECURSIVE decode_list(_, _, _, _)
\* 'for list_entry in value_list', the first n entries: program, then options
decode_list(feats, res, value_list, n) ==
  IF n = 0 THEN res
  ELSE LET r == decode_list(feats, res, value_list, n - 1)
       IN IF IsFault(r) THEN Fault
          ELSE WithOptions(feats, WithProgram(feats, r, value_list[n]),
                           value_list[n])

\* 'sequence_content = value[entry][0]': configuration (options, then
\* program) and details
decode_sequence(feats, res, sequence) ==
  IF Len(sequence) = 0 THEN Fault
  ELSE LET c == sequence[1]
           r1 == IF "configuration" \in DOMAIN c
                 THEN LET o == WithOptions(feats, res, c.configuration)
                      IN IF IsFault(o) THEN Fault
                         ELSE WithProgram(feats, o, c.configuration)
                 ELSE res
       IN IF IsFault(r1) \/ "details" \notin DOMAIN c THEN r1
          ELSE LET dd == decode_list_of_uids(feats, c.details)
               IN IF IsFault(dd) THEN Fault ELSE ("details" :> dd) @@ r1

RECURSIVE decode_dict(_, _, _)
\* 'for entry in value', the first n keys of the dict
decode_dict(feats, value, n) ==
  IF n = 0 THEN <<>>
  ELSE LET res == decode_dict(feats, value, n - 1)
           entry == value.keys[n]
       IN IF IsFault(res) THEN Fault
          ELSE CASE entry = "list" ->
                      decode_list(feats, res, value.at.list, Len(value.at.list))
                 [] entry = "sequence" ->
                      decode_sequence(feats, res, value.at.sequence)
                 [] entry = "length" -> res
                 [] OTHER -> (entry :> value.at[entry]) @@ res

\* mutant: the collapse applies to every map that contains one of the three
PayloadOn_Contained(possible_values) ==
  LET has(m) == /\ DOMAIN m \subseteq DOMAIN possible_values
                /\ \A k \in DOMAIN m : possible_values[k] = m[k]
  IN CASE has("0" :> "Off" @@ "1" :> "Present" @@ "2" :> "Confirmed") -> "present"
       [] has("0" :> "Off" @@ "1" :> "On") -> "on"
       [] has("0" :> "Open" @@ "1" :> "Closed") -> "open"
       [] OTHER -> "None"

\* the label-to-boolean collapse applies to exactly these three maps
PayloadOn(possible_values) ==
  CASE possible_values = ("0" :> "Off" @@ "1" :> "Present" @@ "2" :> "Confirmed")
         -> "present"
    [] possible_values = ("0" :> "Off" @@ "1" :> "On") -> "on"
    [] possible_values = ("0" :> "Open" @@ "1" :> "Closed") -> "open"
    [] OTHER -> "None"

\* a value that is not a dict
decode_scalar(feats, feature, value) ==
  LET value_str == Str(value) IN
    IF /\ "values" \in DOMAIN feature
       /\ DOMAIN feature.values # {}
       /\ value_str \in DOMAIN feature.values
    THEN LET label == feature.values[value_str]
             payload_on == PayloadOn(feature.values)
         IN IF payload_on # "None"
            THEN PyBool(Lower(label) = payload_on)
            ELSE PyStr(label)
    ELSE IF value.t = "int"
    THEN PyStr(get_program_name(feats, value, value_str))
    ELSE value

\* mutant: only the last segment is kept
Nest_LeafOnly(parts, res) == parts[Len(parts)] :> res

RECURSIVE Nest(_, _)
\* tree_dict = {name_parts.pop(): res_value}, wrapped in the remaining parts
Nest(parts, res) ==
  IF Len(parts) = 1 THEN parts[1] :> res
  ELSE parts[1] :> Nest(Tail(parts), res)

\* one entry of the batch as a tree
entry_tree(feats, msg) ==
  IF "uid" \notin DOMAIN msg \/ "value" \notin DOMAIN msg THEN Fault
  ELSE LET uid == Str(msg.uid)
           feature == IF uid \in DOMAIN feats THEN feats[uid] ELSE <<>>
           name == IF "name" \in DOMAIN feature
                   THEN LowerName(feature.name) ELSE << uid >>
           name_parts == IF Len(name) > 1 THEN Tail(name) ELSE name
           res_value == IF msg.value.t = "dict"
                        THEN decode_dict(feats, msg.value, Len(msg.value.keys))
                        ELSE decode_scalar(feats, feature, msg.value)
       IN IF IsFault(res_value) THEN Fault ELSE Nest(name_parts, res_value)

RECURSIVE merge_dicts(_, _)
\* _merge_dicts: where both sides hold a dict they are merged, elsewhere the
\* second side wins
merge_dicts(d1, d2) ==
  [k \in DOMAIN d1 \cup DOMAIN d2 |->
     IF k \notin DOMAIN d2 THEN d1[k]
     ELSE IF k \in DOMAIN d1 /\ IsDict(d1[k]) /\ IsDict(d2[k])
     THEN merge_dicts(d1[k], d2[k])
     ELSE d2[k]]

RECURSIVE decode_batch(_, _, _)
\* 'for msg in values', the first n entries
decode_batch(feats, values, n) ==
  IF n = 0 THEN <<>>
  ELSE LET result == decode_batch(feats, values, n - 1)
           tree_dict == entry_tree(feats, values[n])
       IN IF IsFault(result) \/ IsFault(tree_dict) THEN Fault
          ELSE merge_dicts(result, tree_dict)

\* parse_values_new: without a registry the batch is returned as received
parse_values_new(feats, values) ==
  IF DOMAIN feats = {} THEN [t |-> "list", list |-> values]
  ELSE decode_batch(feats, values, Len(values))

(***************************************************************************)
(* Protocol messages                                                       *)
(***************************************************************************)
\* resource.split("/")[1] for the resources that occur; "" when the
\* resource has no second segment
ServiceOf(resource) ==
  CASE resource \in {"/ci/services", "/ci/authentication", "/ci/info",
                     "/ci/registeredDevices", "/ci/tzInfo"} -> "ci"
    [] resource \in {"/ei/initialValues", "/ei/deviceReady"} -> "ei"
    [] resource = "/iz/info" -> "iz"
    [] resource \in {"/ni/info", "/ni/config"} -> "ni"
    [] resource \in {"/ro/values", "/ro/allMandatoryValues",
                     "/ro/descriptionChange", "/ro/allDescriptionChanges",
                     "/ro/activeProgram", "/ro/selectedProgram"} -> "ro"
    [] OTHER -> ""

\* len(resource.split("/")) > 1
HasSecondSegment(resource) == resource # "status"

\* the data argument of get(): None, one object, or a list of objects
DataNone == [kind |-> "none"]
DataObj(o) == [kind |-> "obj", obj |-> o]
DataList(l) == [kind |-> "list", list |-> l]

\* 'if isinstance(data, list) is False: data = [data]'
AsList(data) == IF data.kind = "list" THEN data.list ELSE <<data.obj>>

Request(resource, version, action, data) ==
  [resource |-> resource, version |-> version, action |-> action, data |-> data]

\* the nonce generated by reconnect: base64url of 32 random bytes, '=' removed
Nonce == "nonce"

\* mutant: network info is requested before the device-ready notification
ReconnectRequests_Swapped(tok) ==
  << Request("/ci/services", 1, "GET", DataNone),
     Request("/ci/authentication", 2, "GET", DataObj([nonce |-> tok])),
     Request("/ci/info", 1, "GET", DataNone),
     Request("/iz/info", 1, "GET", DataNone),
     Request("/ni/info", 1, "GET", DataNone),
     Request("/ei/deviceReady", 2, "NOTIFY", DataNone),
     Request("/ro/allMandatoryValues", 1, "GET", DataNone),
     Request("/ro/values", 1, "GET", DataNone),
     Request("/ro/allDescriptionChanges", 1, "GET", DataNone) >>

\* the get() calls of reconnect, in program order; tok is self.token as read
\* when the authentication request is built
ReconnectRequests(tok) ==
  << Request("/ci/services", 1, "GET", DataNone),
     Request("/ci/authentication", 2, "GET", DataObj([nonce |-> tok])),
     Request("/ci/info", 1, "GET", DataNone),
     Request("/iz/info", 1, "GET", DataNone),
     Request("/ei/deviceReady", 2, "NOTIFY", DataNone),
     Request("/ni/info", 1, "GET", DataNone),
     Request("/ro/allMandatoryValues", 1, "GET", DataNone),
     Request("/ro/values", 1, "GET", DataNone),
     Request("/ro/allDescriptionChanges", 1, "GET", DataNone) >>

NumRequests == Len(ReconnectRequests(Nonce))

\* the get() calls the host caller makes
HostRequests ==
  { Request("/ro/values", 1, "GET", DataNone),
    Request("/ro/values", 1, "POST", DataObj([uid |-> PyInt(1), value |-> PyInt(2)])),
    Request("/ro/values", 1, "POST", DataObj([uid |-> PyInt(3), value |-> PyInt(0)])),
    Request("/ro/values", 1, "POST",
            DataList(<< [uid |-> PyInt(2), value |-> PyInt(3)],
                        [uid |-> PyInt(2), value |-> PyInt(4)] >>)),
    Request("/ro/activeProgram", 1, "POST", DataObj([program |-> PyInt(4)])),
    Request("/ro/activeProgram", 1, "POST", DataObj([program |-> PyInt(1)])),
    Request("/ro/selectedProgram", 1, "POST",
            DataList(<< [program |-> PyInt(4), options |-> << [uid |-> PyInt(2)] >>],
                        [program |-> PyInt(4), options |-> << [uid |-> PyInt(9)] >>] >>)),
    Request("/ci/info", 1, "POST", DataObj([uid |-> PyInt(3), value |-> PyInt(0)])) }

\* inbound frames (json.loads(buf))
Handshake(sID, msgID, edMsgID) ==
  [sID |-> sID, msgID |-> msgID, resource |-> "/ei/initialValues", version |-> 2,
   action |-> "POST", data |-> << [edMsgID |-> edMsgID] >>]

\* the k-th session the appliance opens has its own sID and counter start
HandshakeFrames == { Handshake(10 + k, 69 + k, 20 * k) : k \in 1..MaxHandshakes }

Inbound(resource, action, data) ==
  [sID |-> 11, msgID |-> 90, resource |-> resource, version |-> 1,
   action |-> action, data |-> data]

CatalogFrames ==
  { Inbound("/ci/services", "RESPONSE",
            << [service |-> "ci", version |-> 3], [service |-> "ei", version |-> 2],
               [service |-> "ro", version |-> 1] >>),
    Inbound("/ci/services", "NOTIFY", << [service |-> "ci", version |-> 1] >>) }

AuthFrames ==
  { Inbound("/ci/authentication", "RESPONSE", << [response |-> "token"] >>) }

\* a frame with a top-level code field
WithCode(f, code) ==
  IF "data" \in DOMAIN f
  THEN [sID |-> f.sID, msgID |-> f.msgID, resource |-> f.resource,
        version |-> f.version, action |-> f.action, data |-> f.data, code |-> code]
  ELSE [sID |-> f.sID, msgID |-> f.msgID, resource |-> f.resource,
        version |-> f.version, action |-> f.action, code |-> code]

\* the frames of the session specification
SessionFrames ==
  HandshakeFrames
  \cup { Inbound("/ci/services", "RESPONSE",
                 << [service |-> "ci", version |-> 3],
                    [service |-> "ei", version |-> 2] >>),
         WithCode(Inbound("/ci/services", "RESPONSE", <<>>), 404) }

(***************************************************************************)
(* State                                                                   *)
(***************************************************************************)
VARIABLES
  debug,                 \* HCDevice.debug
  connected,             \* HCDevice.connected
  session_id,            \* HCDevice.session_id
  tx_msg_id,             \* HCDevice.tx_msg_id
  token,                 \* HCDevice.token
  services_initialized,  \* HCDevice.services_initialized
  services,              \* HCDevice.services: service -> negotiated version
  features,              \* HCDevice.features
  rx,                    \* receive context: position in handle_message, the
                         \* frame being (or last) handled, the value returned
  runs,                  \* negotiation threads: position in reconnect
  host,                  \* host caller: position in get(), outcome of the call
  replies,               \* transport: messages handed to ws.send by reply(): how
                         \* many, and the last one
  handed,                \* transport: number of messages handed to ws.send
  session,               \* observer: handshakes handled and, since the last
                         \* one, the msgIDs handed to the transport by get(),
                         \* whether one was used twice, whether a service
                         \* catalog was recorded
  counter,               \* observer: counter value set by the last handshake
                         \* and the get() calls that returned since
  runSent,               \* observer: resources handed to the transport by
                         \* each negotiation thread, in order
  closes,                \* observer: transport closes so far, and whether the
                         \* transport closed since the last handshake
  via,                   \* observer: the receive path that took the frame being
                         \* (or last) handled: _on_message or recv()
  verdict,               \* observer: the last direct call of a validator: which
                         \* one, its data_array, and whether it raised
  status_info,           \* polling host: device[STATUS_INFO], the tree the decoded
                         \* batches are merged into
  features_lock,         \* HCDevice.features_lock: "free" or the context holding it
  access,                \* each context's position: the registry access it is
                         \* in the middle of, and its input
  sent                   \* transport: the last message handed to ws.send by get()

vars == << debug, connected, session_id, tx_msg_id, token, services_initialized,
           services, features, rx, runs, host, replies, handed, session, counter,
           runSent, closes, via, verdict, status_info, features_lock, access, sent >>

\* the threads that touch the registry: the listener of run_forever, a
\* caller of recv(), a caller of the validators
Receivers == {"listen", "poll"}
Contexts == Receivers \cup {"host"}
NoAccess == [op |-> "none", input |-> <<>>]

device == << debug, session_id, tx_msg_id, token, services_initialized,
             services, features >>

Host == 0
Runs == 1..MaxHandshakes

NoMsg == [sID |-> None, msgID |-> None, resource |-> "none", version |-> 0,
          action |-> "none"]
Empty == [kind |-> "empty"]
Raised == [kind |-> "raised"]

Init ==
  /\ debug \in BOOLEAN
  /\ connected = FALSE
  /\ session_id = None
  /\ tx_msg_id = None
  /\ token = NoToken
  /\ services_initialized = FALSE
  /\ services = <<>>
  /\ features = InitialFeatures
  /\ rx = [pc |-> "idle", i |-> 0, msg |-> NoMsg, result |-> Empty]
  /\ runs = [t \in Runs |-> [pos |-> 0, ph |-> "unborn", ld |-> None]]
  /\ host = [ph |-> "idle", ld |-> None, out |-> "none", calls |-> 0]
  /\ replies = [n |-> 0, last |-> NoMsg]
  /\ handed = 0
  /\ session = [epoch |-> 0, ids |-> {}, reused |-> FALSE, catalog |-> FALSE]
  /\ counter = [base |-> None, done |-> 0]
  /\ runSent = [t \in Runs |-> <<>>]
  /\ closes = [n |-> 0, since |-> FALSE]
  /\ via = "none"
  /\ verdict = [fn |-> "none", data |-> <<>>, out |-> "none"]
  /\ status_info = <<>>
  /\ features_lock = "free"
  /\ access = [c \in Contexts |-> NoAccess]
  /\ sent = NoMsg

(***************************************************************************)
(* get(): build the message, validate, send, increment                     *)
(***************************************************************************)
\* mutant: /ro/selectedProgram is sent unvalidated
ValidatorFor_NoSelected(resource) ==
  CASE resource = "/ro/values" -> "test_feature"
    [] resource = "/ro/activeProgram" -> "test_program_data"
    [] OTHER -> "none"

\* the validator get() applies to a POST with a payload to this resource
ValidatorFor(resource) ==
  CASE resource = "/ro/values" -> "test_feature"
    [] resource = "/ro/activeProgram" -> "test_program_data"
    [] resource = "/ro/selectedProgram" -> "test_program_data"
    [] OTHER -> "none"

\* 'if data is not None: ... if action == "POST" and self.debug is False:'
Validate(req) ==
  IF req.data.kind # "none" /\ req.action = "POST" /\ debug = FALSE
  THEN CASE ValidatorFor(req.resource) = "test_feature" ->
              test_feature(debug, features, AsList(req.data))
         [] ValidatorFor(req.resource) = "test_program_data" ->
              test_program_data(features, AsList(req.data))
         [] OTHER -> Accept
  ELSE Accept

\* mutant: the version the caller passed is always used
VersionFor_Caller(req) == req.version


\* the version of the negotiated service overrides the caller's
VersionFor(req) ==
  IF /\ services_initialized
     /\ HasSecondSegment(req.resource)
     /\ ServiceOf(req.resource) \in DOMAIN services
  THEN services[ServiceOf(req.resource)]
  ELSE req.version

\* the msgID get() puts into the message
StampedMsgId == tx_msg_id

\* msg = {"sID": ..., "msgID": ..., "resource": ..., "version": ..., "action": ...}
Stamp(req) ==
  IF req.data.kind = "none"
  THEN [sID |-> session_id, msgID |-> StampedMsgId, resource |-> req.resource,
        version |-> VersionFor(req), action |-> req.action]
  ELSE [sID |-> session_id, msgID |-> StampedMsgId, resource |-> req.resource,
        version |-> VersionFor(req), action |-> req.action,
        data |-> AsList(req.data)]

\* self.ws.send(msg) called from get() by thread t. Whether the transport
\* accepts the message or raises, get() goes on with the increment: the
\* exception is caught and logged.
SendFromGet(t, msg) ==
  /\ handed' = handed + 1
  /\ sent' = msg
  /\ session' = [session EXCEPT !.ids = @ \cup {msg.msgID},
                                !.reused = @ \/ msg.msgID \in session.ids]
  /\ runSent' = IF t \in Runs
                THEN [runSent EXCEPT ![t] = Append(@, msg.resource)]
                ELSE runSent

\* the value 'self.tx_msg_id += 1' stores, from the value it loaded
Incremented(ld) == ld + 1

\* mutant: the counter is incremented although the validator raised
RejectedMsgId_Incremented == tx_msg_id + 1

\* the counter after a call the validator rejected: the exception leaves
\* get() before the message is built, 'self.tx_msg_id += 1' is not reached
RejectedMsgId == tx_msg_id


\* host: get(req) up to and including ws.send
HostCall(req) ==
  /\ host.ph = "idle"
  /\ host.calls < MaxHostCalls
  /\ IF Validate(req) = Reject
     THEN /\ host' = [host EXCEPT !.out = "rejected", !.calls = @ + 1]
          /\ tx_msg_id' = RejectedMsgId
          /\ UNCHANGED << handed, session, runSent, sent >>
     ELSE /\ SendFromGet(Host, Stamp(req))
          /\ host' = [host EXCEPT !.ph = "sent", !.out = "none", !.calls = @ + 1]
          /\ UNCHANGED tx_msg_id
  /\ UNCHANGED << debug, session_id, token, services_initialized, services, features,
                  connected, rx, runs, replies, counter, closes, via, verdict,
                  status_info, features_lock, access >>

\* host: 'self.tx_msg_id += 1' reads the counter; None + 1 raises TypeError
HostLoad ==
  /\ host.ph = "sent"
  /\ IF tx_msg_id = None
     THEN host' = [host EXCEPT !.ph = "idle", !.out = "typeerror"]
     ELSE host' = [host EXCEPT !.ph = "loaded", !.ld = tx_msg_id]
  /\ UNCHANGED << device, connected, rx, runs, replies, handed, session, counter,
                  runSent, closes, via, verdict, status_info,
                  features_lock, access, sent >>

\* host: 'self.tx_msg_id += 1' writes the counter; get() returns
HostStore ==
  /\ host.ph = "loaded"
  /\ tx_msg_id' = Incremented(host.ld)
  /\ counter' = [counter EXCEPT !.done = @ + 1]
  /\ host' = [host EXCEPT !.ph = "idle", !.ld = None, !.out = "returned"]
  /\ UNCHANGED << debug, session_id, token, services_initialized, services,
                  features, connected, rx, runs, replies, handed, session, runSent,
                  closes, via, verdict, status_info,
                  features_lock, access, sent >>

(***************************************************************************)
(* reconnect(): the negotiation thread                                     *)
(***************************************************************************)
\* mutant: the loop also waits for the authentication token
CatalogSeen_AndToken == services_initialized /\ token # NoToken

\* 'if self.services_initialized: break'
CatalogSeen == services_initialized

\* where reconnect continues after its pos-th get() has returned
AfterRequest(pos) ==
  IF pos = 1 THEN [pos |-> 2, ph |-> "wait", ld |-> None]
  ELSE IF pos = NumRequests THEN [pos |-> pos, ph |-> "done", ld |-> None]
  ELSE [pos |-> pos + 1, ph |-> "call", ld |-> None]

\* thread t: its next get(), up to and including ws.send
RunCall(t) ==
  /\ runs[t].ph = "call"
  /\ LET req == ReconnectRequests(token)[runs[t].pos] IN
       IF Validate(req) = Reject
       THEN /\ runs' = [runs EXCEPT ![t].ph = "dead"]
            /\ UNCHANGED << handed, session, runSent, sent >>
       ELSE /\ SendFromGet(t, Stamp(req))
            /\ runs' = [runs EXCEPT ![t].ph = "sent"]
  /\ UNCHANGED << device, connected, rx, host, replies, counter, closes, via, verdict, status_info,
                  features_lock, access >>

RunLoad(t) ==
  /\ runs[t].ph = "sent"
  /\ IF tx_msg_id = None
     THEN runs' = [runs EXCEPT ![t].ph = "dead"]
     ELSE runs' = [runs EXCEPT ![t].ph = "loaded", ![t].ld = tx_msg_id]
  /\ UNCHANGED << device, connected, rx, host, replies, handed, session, counter,
                  runSent, closes, via, verdict, status_info,
                  features_lock, access, sent >>

RunStore(t) ==
  /\ runs[t].ph = "loaded"
  /\ tx_msg_id' = Incremented(runs[t].ld)
  /\ counter' = [counter EXCEPT !.done = @ + 1]
  /\ runs' = [runs EXCEPT ![t] = AfterRequest(runs[t].pos)]
  /\ UNCHANGED << debug, session_id, token, services_initialized, services,
                  features, connected, rx, host, replies, handed, session, runSent,
                  closes, via, verdict, status_info,
                  features_lock, access, sent >>

\* thread t: 'while True: time.sleep(1); if self.services_initialized: break'
RunPoll(t) ==
  /\ runs[t].ph = "wait"
  /\ CatalogSeen
  /\ runs' = [runs EXCEPT ![t].ph = "token"]
  /\ UNCHANGED << device, connected, rx, host, replies, handed, session, counter,
                  runSent, closes, via, verdict, status_info,
                  features_lock, access, sent >>

\* thread t: self.token = base64url_encode(get_random_bytes(32))..., '=' removed
RunToken(t) ==
  /\ runs[t].ph = "token"
  /\ token' = Nonce
  /\ runs' = [runs EXCEPT ![t].ph = "call"]
  /\ UNCHANGED << debug, session_id, tx_msg_id, services_initialized, services,
                  features, connected, rx, host, replies, handed, session, counter,
                  runSent, closes, via, verdict, status_info,
                  features_lock, access, sent >>

(***************************************************************************)
(* handle_message(): the receive context                                   *)
(***************************************************************************)
\* reply(msg, reply): the RESPONSE to a POST, with the ids the appliance sent
ReplyTo(msg, reply) ==
  [sID |-> msg.sID, msgID |-> msg.msgID, resource |-> msg.resource,
   version |-> msg.version, action |-> "RESPONSE", data |-> << reply >>]

ClientIdentity ==
  [deviceType |-> "Application", deviceName |-> "hcpy", deviceID |-> "0badcafe"]

\* mutant: the negotiation thread is started before the reply is sent
HandshakeOrder_ThreadFirst == << "sid", "txid", "thread", "reply" >>

\* the statements of the /ei/initialValues branch, in program order
HandshakeOrder == << "sid", "txid", "reply", "thread" >>

\* mutant: reconnect runs in the receive context, which waits for it
RxAfterStart_Inline == "blocked"

\* the receive context after threading.Thread(target=self.reconnect).start():
\* start() returns at once and handle_message returns its (empty) result
RxAfterStart == "idle"

\* mutant: a change for a uid the registry does not hold is dropped
ApplyChange_KnownOnly(feats, change) ==
  LET uid == Str(change.uid) IN
    IF uid \in DOMAIN feats
    THEN LET f == feats[uid]
             upd == [k \in {"access", "available", "min", "max"} \cap DOMAIN change
                       |-> change[k]]
         IN [u \in DOMAIN feats |-> IF u = uid THEN upd @@ f ELSE feats[u]]
    ELSE feats

\* mutant: every field of the change is merged into a known descriptor
ApplyChange_EveryField(feats, change) ==
  LET uid == Str(change.uid) IN
    IF uid \in DOMAIN feats
    THEN [u \in DOMAIN feats |-> IF u = uid THEN change @@ feats[u] ELSE feats[u]]
    ELSE (uid :> change) @@ feats

\* mutant: the descriptor of an unknown uid replaces the registry
ApplyChange_Fresh(feats, change) ==
  LET uid == Str(change.uid) IN
    IF uid \in DOMAIN feats
    THEN LET f == feats[uid]
             upd == [k \in {"access", "available", "min", "max"} \cap DOMAIN change
                       |-> change[k]]
         IN [u \in DOMAIN feats |-> IF u = uid THEN upd @@ f ELSE feats[u]]
    ELSE (uid :> change)

\* one description change merged into the registry
ApplyChange(feats, change) ==
  LET uid == Str(change.uid) IN
    IF uid \in DOMAIN feats
    THEN LET f == feats[uid]
             upd == [k \in {"access", "available", "min", "max"} \cap DOMAIN change
                       |-> change[k]]
         IN [u \in DOMAIN feats |-> IF u = uid THEN upd @@ f ELSE feats[u]]
    ELSE (uid :> change) @@ feats

RECURSIVE ApplyChanges(_, _)
\* 'for change in msg["data"]'
ApplyChanges(feats, changes) ==
  IF changes = <<>> THEN feats
  ELSE ApplyChanges(ApplyChange(feats, Head(changes)), Tail(changes))

\* the entries handled before the loop reaches one that lacks a key it
\* subscripts (KeyError): all of them when none does
Before(entries, keys) ==
  LET n == CHOOSE k \in 0..Len(entries) :
             /\ \A i \in 1..k : keys \subseteq DOMAIN entries[i]
             /\ k < Len(entries) => ~(keys \subseteq DOMAIN entries[k + 1])
  IN SubSeq(entries, 1, n)

RECURSIVE RecordServices(_, _)
\* 'for service in msg["data"]: self.services[service["service"]] = {...}'
RecordServices(table, entries) ==
  IF entries = <<>> THEN table
  ELSE RecordServices((Head(entries).service :> Head(entries).version) @@ table,
                      Tail(entries))

\* what handle_message returns for a value batch: the decoded tree ({} is
\* the empty result), unless the codec raised
ValuesResult(r) ==
  IF IsFault(r) THEN Raised
  ELSE IF DOMAIN r = {} THEN Empty
  ELSE [kind |-> "values", tree |-> r]

\* mutant: the handshake branch is taken before the code check
IsHandshake_IgnoresCode(f) ==
  /\ f.action = "POST"
  /\ f.resource = "/ei/initialValues"

\* 'elif action == "POST": if resource == "/ei/initialValues":', reached
\* only without a top-level code
IsHandshake(f) ==
  /\ "code" \notin DOMAIN f
  /\ f.action = "POST"
  /\ f.resource = "/ei/initialValues"

\* mutant: the /ni/config payload is returned like the info payloads
InfoResources_WithConfig == {"/iz/info", "/ci/info", "/ni/info", "/ni/config"}

\* the resources whose first payload element handle_message returns
InfoResources == {"/iz/info", "/ci/info", "/ni/info"}

\* handle_message for every frame but the handshake: one dispatch, the
\* fields it assigns and the value it returns
Dispatch(f) ==
  IF "code" \in DOMAIN f
  THEN /\ rx' = [pc |-> "idle", i |-> 0, msg |-> NoMsg,
                 result |-> [kind |-> "error", error |-> f.code,
                             resource |-> f.resource]]
       /\ UNCHANGED << token, services, services_initialized, features, session >>
  ELSE IF f.action = "POST"
  THEN \* logger.warning("Unknown resource", resource, file=sys.stderr):
       \* Logger takes no 'file' keyword; the call raises TypeError when the
       \* logger is enabled for warnings and does nothing when it is not
       /\ \E r \in {Raised, Empty} :
            rx' = [pc |-> "idle", i |-> 0, msg |-> NoMsg, result |-> r]
       /\ UNCHANGED << token, services, services_initialized, features, session >>
  ELSE IF f.action \in {"RESPONSE", "NOTIFY"}
  THEN CASE f.resource \in InfoResources ->
              /\ rx' = [pc |-> "idle", i |-> 0, msg |-> NoMsg,
                        result |-> IF "data" \in DOMAIN f /\ Len(f.data) > 0
                                   THEN [kind |-> "info", body |-> f.data[1]]
                                   ELSE Empty]
              /\ UNCHANGED << token, services, services_initialized, features, session >>
         [] f.resource \in {"/ro/descriptionChange", "/ro/allDescriptionChanges"} ->
              \* change["uid"] raises KeyError on an entry without uid, with
              \* the entries before it already merged
              /\ features' = IF "data" \in DOMAIN f /\ Len(f.data) > 0
                             THEN ApplyChanges(features, Before(f.data, {"uid"}))
                             ELSE features
              /\ rx' = [pc |-> "idle", i |-> 0, msg |-> NoMsg,
                        result |-> IF /\ "data" \in DOMAIN f
                                      /\ Before(f.data, {"uid"}) # f.data
                                   THEN Raised ELSE Empty]
              /\ UNCHANGED << token, services, services_initialized, session >>
         [] f.resource \in {"/ro/allMandatoryValues", "/ro/values"} ->
              /\ rx' = [pc |-> "idle", i |-> 0, msg |-> NoMsg,
                        result |-> IF "data" \in DOMAIN f
                                   THEN ValuesResult(parse_values_new(features, f.data))
                                   ELSE Empty]
              /\ UNCHANGED << token, services, services_initialized, features,
                              session >>
         [] f.resource = "/ci/authentication" ->
              \* msg["data"][0]["response"] raises KeyError without the field
              IF "data" \in DOMAIN f /\ Len(f.data) > 0
                                     /\ "response" \notin DOMAIN f.data[1]
              THEN /\ rx' = [pc |-> "idle", i |-> 0, msg |-> NoMsg, result |-> Raised]
                   /\ UNCHANGED << token, services, services_initialized, features,
                                   session >>
              ELSE /\ token' = IF "data" \in DOMAIN f /\ Len(f.data) > 0
                               THEN f.data[1].response
                               ELSE token
                   /\ rx' = [pc |-> "idle", i |-> 0, msg |-> NoMsg, result |-> Empty]
                   /\ UNCHANGED << services, services_initialized, features,
                                   session >>
         [] f.resource = "/ci/services" ->
              \* msg["data"], service["service"] and service["version"] raise
              \* KeyError when missing: the entries before are recorded, the
              \* flag is not set
              IF "data" \notin DOMAIN f
              THEN /\ rx' = [pc |-> "idle", i |-> 0, msg |-> NoMsg, result |-> Raised]
                   /\ UNCHANGED << token, services, services_initialized, features,
                                   session >>
              ELSE IF Before(f.data, {"service", "version"}) # f.data
              THEN /\ services' =
                        RecordServices(services, Before(f.data, {"service", "version"}))
                   /\ rx' = [pc |-> "idle", i |-> 0, msg |-> NoMsg, result |-> Raised]
                   /\ UNCHANGED << token, services_initialized, features, session >>
              ELSE /\ services' = RecordServices(services, f.data)
                   /\ services_initialized' = TRUE
                   /\ session' = [session EXCEPT !.catalog = TRUE]
                   /\ rx' = [pc |-> "idle", i |-> 0, msg |-> NoMsg, result |-> Empty]
                   /\ UNCHANGED << token, features >>
         [] OTHER ->
              \* /ni/config, /ci/registeredDevices, /ci/tzInfo, unknown
              /\ rx' = [pc |-> "idle", i |-> 0, msg |-> NoMsg, result |-> Empty]
              /\ UNCHANGED << token, services, services_initialized, features, session >>
  ELSE /\ rx' = [pc |-> "idle", i |-> 0, msg |-> NoMsg, result |-> Empty]
       /\ UNCHANGED << token, services, services_initialized, features, session >>

\* the appliance opens its next session only once the negotiation of the
\* previous one has ended
MayStartSession(f) ==
  /\ session.epoch < MaxHandshakes
  /\ f.sID = 10 + session.epoch + 1
  /\ \A t \in Runs : runs[t].ph \in {"unborn", "done", "dead"}

\* json.loads(buf) succeeds and msg["resource"], msg["action"] exist
HasEnvelope(f) == {"resource", "action"} \subseteq DOMAIN f

\* handle_message(buf): the frame is parsed and dispatched; the handshake
\* branch goes on statement by statement
handle_message(f) ==
  IF ~HasEnvelope(f)
  THEN \* JSONDecodeError from json.loads, or KeyError from msg["resource"],
       \* msg["action"]
       /\ rx' = [pc |-> "idle", i |-> 0, msg |-> NoMsg, result |-> Raised]
       /\ UNCHANGED << token, services, services_initialized, features, session >>
  ELSE IF IsHandshake(f)
  THEN /\ MayStartSession(f)
       /\ rx' = [pc |-> "hs", i |-> 1, msg |-> f, result |-> Empty]
       /\ UNCHANGED << token, services, services_initialized, features, session >>
  ELSE Dispatch(f)

\* _on_message: the receive context of run_forever takes the next frame
OnMessage(f) ==
  /\ connected
  /\ rx.pc = "idle"
  /\ handle_message(f)
  /\ via' = "listen"
  /\ UNCHANGED << debug, connected, session_id, tx_msg_id, runs, host, replies,
                  handed, counter, runSent, closes, verdict, status_info,
                  features_lock, access, sent >>

\* recv(): the polling host takes the next frame from ws.recv()
Recv(f) ==
  /\ rx.pc = "idle"
  /\ handle_message(f)
  /\ via' = "poll"
  /\ UNCHANGED << debug, connected, session_id, tx_msg_id, runs, host, replies,
                  handed, counter, runSent, closes, verdict, status_info,
                  features_lock, access, sent >>

\* what recv() returns when handle_message raised
NoneResult == [kind |-> "none"]
\* the exception leaves _on_message; on_message(values) is not called
Propagated == [kind |-> "propagated"]

\* what the receive path hands on for the frame last handled: recv() turns
\* an exception of handle_message into None, _on_message does not catch it
Delivered ==
  IF rx.result = Raised
  THEN (IF via = "poll" THEN NoneResult ELSE Propagated)
  ELSE rx.result

\* the next statement of the /ei/initialValues branch
RxNext == IF rx.i < Len(HandshakeOrder)
          THEN [rx EXCEPT !.i = @ + 1]
          ELSE [pc |-> RxAfterStart, i |-> 0, msg |-> NoMsg, result |-> Empty]

\* self.session_id = msg["sID"]
HsSessionId ==
  /\ rx.pc = "hs" /\ HandshakeOrder[rx.i] = "sid"
  /\ session_id' = rx.msg.sID
  /\ session' = [epoch |-> session.epoch + 1, ids |-> {}, reused |-> FALSE,
                 catalog |-> FALSE]
  /\ closes' = [closes EXCEPT !.since = FALSE]
  /\ rx' = RxNext
  /\ UNCHANGED << debug, tx_msg_id, token, services_initialized, services,
                  features, connected, runs, host, replies, handed, counter, runSent, via, verdict, status_info,
                  features_lock, access, sent >>

\* msg["data"][0]["edMsgID"] exists
HasEdMsgId(msg) ==
  /\ "data" \in DOMAIN msg
  /\ Len(msg.data) > 0
  /\ "edMsgID" \in DOMAIN msg.data[1]

\* self.tx_msg_id = msg["data"][0]["edMsgID"]
HsTxMsgId ==
  /\ rx.pc = "hs" /\ HandshakeOrder[rx.i] = "txid"
  /\ IF HasEdMsgId(rx.msg)
     THEN /\ tx_msg_id' = rx.msg.data[1].edMsgID
          /\ counter' = [base |-> rx.msg.data[1].edMsgID, done |-> 0]
          /\ rx' = RxNext
     ELSE \* KeyError or IndexError, after session_id was assigned
          /\ rx' = [pc |-> "idle", i |-> 0, msg |-> NoMsg, result |-> Raised]
          /\ UNCHANGED << tx_msg_id, counter >>
  /\ UNCHANGED << debug, session_id, token, services_initialized, services,
                  features, connected, runs, host, replies, handed, session, runSent,
                  closes, via, verdict, status_info,
                  features_lock, access, sent >>

\* self.reply(msg, {...}); a transport failure propagates out of handle_message
HsReply ==
  /\ rx.pc = "hs" /\ HandshakeOrder[rx.i] = "reply"
  /\ replies' = [n |-> replies.n + 1, last |-> ReplyTo(rx.msg, ClientIdentity)]
  /\ handed' = handed + 1
  /\ \E ok \in BOOLEAN :
       rx' = IF ok THEN RxNext
             ELSE [pc |-> "idle", i |-> 0, msg |-> NoMsg, result |-> Raised]
  /\ UNCHANGED << device, connected, runs, host, session, counter, runSent, closes, via, verdict, status_info,
                  features_lock, access, sent >>

\* threading.Thread(target=self.reconnect).start()
HsThread ==
  /\ rx.pc = "hs" /\ HandshakeOrder[rx.i] = "thread"
  /\ LET t == CHOOSE u \in Runs :
                /\ runs[u].ph = "unborn"
                /\ \A w \in Runs : runs[w].ph = "unborn" => u <= w
     IN runs' = [runs EXCEPT ![t] = [pos |-> 1, ph |-> "call", ld |-> None]]
  /\ rx' = RxNext
  /\ UNCHANGED << device, connected, host, replies, handed, session, counter,
                  runSent, closes, via, verdict, status_info,
                  features_lock, access, sent >>

\* run_forever: _on_open
OnOpen ==
  /\ ~connected
  /\ rx.pc = "idle"
  /\ connected' = TRUE
  /\ UNCHANGED << device, rx, runs, host, replies, handed, session, counter,
                  runSent, closes, via, verdict, status_info,
                  features_lock, access, sent >>

\* mutant: the close callback also forgets the service catalog
OnClose_Forgets ==
  /\ connected
  /\ rx.pc = "idle"
  /\ closes.n < MaxCloses
  /\ connected' = FALSE
  /\ services_initialized' = FALSE
  /\ services' = <<>>
  /\ closes' = [n |-> closes.n + 1, since |-> TRUE]
  /\ UNCHANGED << debug, session_id, tx_msg_id, token, features, rx, runs, host,
                  replies, handed, session, counter, runSent, via, verdict,
                  status_info, features_lock, access, sent >>


\* run_forever: _on_close
OnClose ==
  /\ connected
  /\ rx.pc = "idle"
  /\ closes.n < MaxCloses
  /\ connected' = FALSE
  /\ closes' = [n |-> closes.n + 1, since |-> TRUE]
  /\ UNCHANGED << device, rx, runs, host, replies, handed, session, counter, runSent, via, verdict, status_info,
                  features_lock, access, sent >>

(***************************************************************************)
(* Specification: all contexts, session frames                             *)
(***************************************************************************)
Next ==
  \/ OnOpen
  \/ \E f \in SessionFrames : OnMessage(f)
  \/ HsSessionId
  \/ HsTxMsgId
  \/ HsReply
  \/ HsThread
  \/ \E t \in Runs : RunCall(t)
  \/ \E t \in Runs : RunLoad(t)
  \/ \E t \in Runs : RunStore(t)
  \/ \E t \in Runs : RunPoll(t)
  \/ \E t \in Runs : RunToken(t)
  \/ \E req \in HostRequests : HostCall(req)
  \/ HostLoad
  \/ HostStore

Spec == Init /\ [][Next]_vars

(***************************************************************************)
(* Specification: the receive context and the negotiation threads,         *)
(* session frames, transport closes; every negotiation thread that can     *)
(* take its next step eventually takes it (the threads are started by      *)
(* threading.Thread and scheduled by the interpreter; the wait loop wakes  *)
(* up every second)                                                        *)
(***************************************************************************)
NextLive ==
  \/ OnOpen
  \/ OnClose
  \/ \E f \in SessionFrames : OnMessage(f)
  \/ HsSessionId
  \/ HsTxMsgId
  \/ HsReply
  \/ HsThread
  \/ \E t \in Runs : RunCall(t)
  \/ \E t \in Runs : RunLoad(t)
  \/ \E t \in Runs : RunStore(t)
  \/ \E t \in Runs : RunPoll(t)
  \/ \E t \in Runs : RunToken(t)

RunFairness ==
  \A t \in Runs :
    /\ WF_vars(RunCall(t))
    /\ WF_vars(RunLoad(t))
    /\ WF_vars(RunStore(t))
    /\ WF_vars(RunPoll(t))
    /\ WF_vars(RunToken(t))

SpecLive == Init /\ [][NextLive]_vars /\ RunFairness

(***************************************************************************)
(* Specification: all contexts, session frames, transport closes           *)
(***************************************************************************)
NextClose == Next \/ OnClose

SpecClose == Init /\ [][NextClose]_vars

(***************************************************************************)
(* Specification: the receive context alone, every kind of frame           *)
(***************************************************************************)
InfoFrames ==
  { Inbound("/ci/info", "RESPONSE", << [deviceID |-> "0123", brand |-> "BSH"] >>),
    Inbound("/iz/info", "RESPONSE", <<>>),
    Inbound("/ni/info", "NOTIFY", << [interfaceID |-> 0, ipV4 |-> "10.0.0.2"] >>) }

ChangeFrames ==
  { Inbound("/ro/descriptionChange", "NOTIFY",
            << [uid |-> PyInt(3), access |-> "READWRITE"] >>),
    Inbound("/ro/allDescriptionChanges", "RESPONSE",
            << [uid |-> PyInt(2), min |-> PyInt(1), available |-> TRUE],
               [uid |-> PyInt(999), min |-> PyInt(0)] >>) }

OtherFrames ==
  { Inbound("/ni/config", "RESPONSE", << [interfaceID |-> 0] >>),
    Inbound("/ci/registeredDevices", "RESPONSE", <<>>),
    Inbound("/ci/tzInfo", "RESPONSE", <<>>),
    Inbound("/xx/unknown", "NOTIFY", <<>>),
    Inbound("/ro/values", "POST", <<>>),
    Inbound("/ci/info", "GET", <<>>) }

\* a program selection as the appliance reports it: {"list": [...], "length": 1}
ListValue ==
  PyDict(<< "list", "length" >>,
         [list |-> << [program |-> PyInt(4),
                       options |-> << [uid |-> PyInt(1), value |-> PyInt(2)] >>] >>,
          length |-> PyInt(1)])

\* a program sequence whose option uid 999 has no named descriptor
SequenceValue ==
  PyDict(<< "sequence" >>,
         [sequence |->
            << [configuration |->
                  [program |-> PyInt(4),
                   options |-> << [uid |-> PyInt(999), value |-> PyInt(1)] >>],
                details |-> << [uid |-> PyInt(3), value |-> PyInt(1)] >>] >>])

ValueFrames ==
  { Inbound("/ro/values", "NOTIFY", << [uid |-> PyInt(3), value |-> PyInt(0)] >>),
    Inbound("/ro/allMandatoryValues", "RESPONSE",
            << [uid |-> PyInt(1), value |-> PyInt(2)],
               [uid |-> PyInt(5), value |-> PyInt(1)],
               [uid |-> PyInt(2), value |-> PyInt(7)],
               [uid |-> PyInt(999), value |-> PyStr("x")] >>),
    Inbound("/ro/values", "NOTIFY", << [uid |-> PyInt(2), value |-> ListValue] >>),
    Inbound("/ro/values", "NOTIFY",
            << [uid |-> PyInt(3), value |-> PyInt(1)],
               [uid |-> PyInt(2), value |-> SequenceValue] >>),
    Inbound("/ro/values", "NOTIFY", << [uid |-> PyInt(3)] >>),
    [sID |-> 11, msgID |-> 90, resource |-> "/ro/values", version |-> 1,
     action |-> "RESPONSE"] }

PlainFrames ==
  HandshakeFrames \cup CatalogFrames \cup AuthFrames \cup InfoFrames
  \cup ChangeFrames \cup ValueFrames \cup OtherFrames

AllFrames == PlainFrames \cup { WithCode(f, 404) : f \in PlainFrames }

\* frames that are not valid JSON, or lack resource, action or a payload
\* field the handler subscripts
MalformedFrames ==
  { [raw |-> "{not json"],
    [sID |-> 11, msgID |-> 90, version |-> 1, action |-> "NOTIFY"],
    [sID |-> 11, msgID |-> 90, resource |-> "/ro/values", version |-> 1],
    [sID |-> 11, msgID |-> 70, resource |-> "/ei/initialValues", version |-> 2,
     action |-> "POST", data |-> <<>>],
    [sID |-> 11, msgID |-> 90, resource |-> "/ci/services", version |-> 1,
     action |-> "RESPONSE"],
    Inbound("/ci/services", "RESPONSE",
            << [service |-> "ci", version |-> 3], [service |-> "ei"] >>),
    Inbound("/ci/authentication", "RESPONSE", << [nonce |-> "token"] >>),
    Inbound("/ro/descriptionChange", "NOTIFY",
            << [uid |-> PyInt(3), access |-> "READWRITE"],
               [access |-> "readOnly"] >>),
    Inbound("/ro/values", "NOTIFY", << [uid |-> PyInt(3)] >>) }

NextRx ==
  \/ OnOpen
  \/ \E f \in AllFrames : OnMessage(f)
  \/ HsSessionId
  \/ HsTxMsgId
  \/ HsReply
  \/ HsThread

SpecRx == Init /\ [][NextRx]_vars

(***************************************************************************)
(* Specification: both receive paths, malformed and well-formed frames     *)
(***************************************************************************)
PathFrames == MalformedFrames \cup HandshakeFrames \cup CatalogFrames \cup ValueFrames

NextPaths ==
  \/ OnOpen
  \/ \E f \in PathFrames : OnMessage(f)
  \/ \E f \in PathFrames : Recv(f)
  \/ HsSessionId
  \/ HsTxMsgId
  \/ HsReply
  \/ HsThread

SpecPaths == Init /\ [][NextPaths]_vars

(***************************************************************************)
(* Specification: the validators called directly on a registry that        *)
(* description changes extend and alter                                    *)
(***************************************************************************)
\* description changes: access levels in several letter cases, bounds, and
\* descriptors for uids the registry does not hold yet
DescriptionFrames ==
  ChangeFrames \cup
  { Inbound("/ro/descriptionChange", "NOTIFY",
            << [uid |-> PyInt(3), access |-> "READONLY"] >>),
    Inbound("/ro/descriptionChange", "NOTIFY",
            << [uid |-> PyInt(1), access |-> "WRITEONLY",
                values |-> ("9" :> "Auto")] >>),
    Inbound("/ro/descriptionChange", "NOTIFY",
            << [uid |-> PyInt(996), access |-> "readWrite", min |-> PyInt(0)] >>),
    Inbound("/ro/descriptionChange", "NOTIFY",
            << [uid |-> PyInt(997), access |-> "readwrite"] >>),
    Inbound("/ro/descriptionChange", "NOTIFY",
            << [uid |-> PyInt(998), access |-> "readWrite", max |-> PyInt(3)] >>) }

WriteUids == {1, 2, 3, 77, 996, 997, 998}
WriteValues ==
  {PyInt(-1), PyInt(0), PyInt(1), PyInt(3), PyInt(4), PyBool(TRUE), PyStr("1")}

\* data_array arguments of test_feature
WritePayloads ==
  { << [uid |-> PyInt(u), value |-> v] >> : u \in WriteUids, v \in WriteValues }
  \cup { << [uid |-> PyInt(1)] >>,
         << [value |-> PyInt(1)] >>,
         << [uid |-> PyStr("1"), value |-> PyInt(1)] >>,
         << [uid |-> PyInt(2), value |-> PyInt(3)],
            [uid |-> PyInt(3), value |-> PyInt(0)] >>,
         << [uid |-> PyInt(2), value |-> PyInt(3)],
            [uid |-> PyInt(1), value |-> PyInt(1)] >> }

ProgramUids == {PyInt(4), PyInt(1), PyInt(997), PyInt(77), PyStr("4"), PyBool(TRUE)}
OptionLists ==
  { << [uid |-> PyInt(1), value |-> PyInt(1)] >>,
    << [uid |-> PyInt(1), value |-> PyInt(1)], [uid |-> PyInt(77), value |-> PyInt(0)] >>,
    << [uid |-> PyInt(999), value |-> PyInt(0)] >> }

\* data_array arguments of test_program_data
ProgramPayloads ==
  { << [program |-> p] >> : p \in ProgramUids }
  \cup { << [program |-> p, options |-> o] >> : p \in ProgramUids, o \in OptionLists }
  \cup { << [options |-> << [uid |-> PyInt(1), value |-> PyInt(1)] >>] >>,
         << [program |-> PyInt(4), options |-> << [value |-> PyInt(1)] >>] >>,
         << [program |-> PyInt(4)], [program |-> PyInt(1)] >>,
         << [program |-> PyInt(4)], [program |-> PyInt(997)] >> }

\* a caller applies test_feature to a payload
TestFeature(data_array) ==
  /\ verdict' = [fn |-> "test_feature", data |-> data_array,
                 out |-> test_feature(debug, features, data_array)]
  /\ UNCHANGED << device, connected, rx, runs, host, replies, handed, session,
                  counter, runSent, closes, via, status_info,
                  features_lock, access, sent >>

\* a caller applies test_program_data to a payload
TestProgramData(data_array) ==
  /\ verdict' = [fn |-> "test_program_data", data |-> data_array,
                 out |-> test_program_data(features, data_array)]
  /\ UNCHANGED << device, connected, rx, runs, host, replies, handed, session,
                  counter, runSent, closes, via, status_info,
                  features_lock, access, sent >>

NextValidate ==
  \/ \E f \in DescriptionFrames : Recv(f)
  \/ \E d \in WritePayloads : TestFeature(d)
  \/ \E d \in ProgramPayloads : TestProgramData(d)

SpecValidate == Init /\ [][NextValidate]_vars

(***************************************************************************)
(* Specification: the polling host decodes value batches and merges the    *)
(* trees into device[STATUS_INFO]                                          *)
(***************************************************************************)
\* a registry with enumerations that are, resemble and contain the maps
\* the codec collapses to a boolean, and a feature whose path is a prefix
\* of other features' paths
CodecFeatures ==
  InitialFeatures
  @@ "512" :> [name |-> <<"BSH", "Common", "Status", "DoorState">>,
               access |-> "read",
               values |-> ("0" :> "Open" @@ "1" :> "Closed")]
  @@ "514" :> [name |-> <<"BSH", "Common", "Setting", "Mode">>,
               access |-> "readWrite",
               values |-> ("0" :> "Off" @@ "1" :> "Active")]
  @@ "515" :> [name |-> <<"BSH", "Common", "Setting", "Light">>,
               access |-> "readWrite",
               values |-> ("0" :> "Off" @@ "1" :> "On" @@ "2" :> "Auto")]
  @@ "517" :> [name |-> <<"BSH", "Common", "Status", "Event">>,
               access |-> "read",
               values |-> ("0" :> "Off" @@ "1" :> "Present" @@ "2" :> "Confirmed"
                           @@ "3" :> "Auto")]
  @@ "519" :> [name |-> <<"BSH", "Common", "Setting">>, access |-> "read"]

\* device.get("features") of the configurations considered
CodecRegistries ==
  { CodecFeatures,
    [u \in DOMAIN CodecFeatures \ {"519"} |-> CodecFeatures[u]] }

CodecBatches ==
  { << [uid |-> PyInt(512), value |-> PyInt(0)] >>,
    << [uid |-> PyInt(5), value |-> PyInt(1)] >>,
    << [uid |-> PyInt(5), value |-> PyInt(0)] >>,
    << [uid |-> PyInt(514), value |-> PyInt(1)] >>,
    << [uid |-> PyInt(515), value |-> PyInt(1)] >>,
    << [uid |-> PyInt(517), value |-> PyInt(1)] >>,
    << [uid |-> PyInt(519), value |-> PyStr("x")] >>,
    << [uid |-> PyInt(5), value |-> PyInt(1)],
       [uid |-> PyInt(519), value |-> PyStr("x")] >>,
    << [uid |-> PyInt(519), value |-> PyStr("x")],
       [uid |-> PyInt(514), value |-> PyInt(0)] >> }

CodecFrames ==
  ValueFrames \cup { Inbound("/ro/values", "NOTIFY", b) : b \in CodecBatches }

RECURSIVE lower_dict_keys(_)
\* _lower_dict_keys: the keys of the tree lower-cased at every level
lower_dict_keys(tree) ==
  [k \in { Lower(j) : j \in DOMAIN tree } |->
     LET j == CHOOSE j \in DOMAIN tree : Lower(j) = k
     IN IF IsDict(tree[j]) THEN lower_dict_keys(tree[j]) ELSE tree[j]]

\* the plugin's _on_message(msg): a tree that is neither empty, nor an
\* error, nor device or interface info is merged into device[STATUS_INFO]
PluginOnMessage(acc, msg) ==
  IF /\ msg.kind = "values"
     /\ IsDict(msg.tree)
     /\ DOMAIN msg.tree # {}
     /\ DOMAIN msg.tree \cap {"error", "deviceID", "interfaceID"} = {}
  THEN merge_dicts(acc, lower_dict_keys(msg.tree))
  ELSE acc

\* one turn of the loop of poll_device: self._on_message(device.recv())
PollStep(f) ==
  /\ rx.pc = "idle"
  /\ handle_message(f)
  /\ via' = "poll"
  /\ status_info' = PluginOnMessage(status_info, rx'.result)
  /\ UNCHANGED << debug, connected, session_id, tx_msg_id, runs, host, replies,
                  handed, counter, runSent, closes, verdict,
                  features_lock, access, sent >>

InitCodec ==
  /\ debug \in BOOLEAN
  /\ connected = FALSE
  /\ session_id = None
  /\ tx_msg_id = None
  /\ token = NoToken
  /\ services_initialized = FALSE
  /\ services = <<>>
  /\ features \in CodecRegistries
  /\ rx = [pc |-> "idle", i |-> 0, msg |-> NoMsg, result |-> Empty]
  /\ runs = [t \in Runs |-> [pos |-> 0, ph |-> "unborn", ld |-> None]]
  /\ host = [ph |-> "idle", ld |-> None, out |-> "none", calls |-> 0]
  /\ replies = [n |-> 0, last |-> NoMsg]
  /\ handed = 0
  /\ session = [epoch |-> 0, ids |-> {}, reused |-> FALSE, catalog |-> FALSE]
  /\ counter = [base |-> None, done |-> 0]
  /\ runSent = [t \in Runs |-> <<>>]
  /\ closes = [n |-> 0, since |-> FALSE]
  /\ via = "none"
  /\ verdict = [fn |-> "none", data |-> <<>>, out |-> "none"]
  /\ status_info = <<>>
  /\ features_lock = "free"
  /\ access = [c \in Contexts |-> NoAccess]
  /\ sent = NoMsg

NextCodec == \E f \in CodecFrames : PollStep(f)

SpecCodec == InitCodec /\ [][NextCodec]_vars

(***************************************************************************)
(* Specification: everything that reads or writes the registry: inbound    *)
(* description changes and value batches, get() calls of the host, and     *)
(* direct calls of the validators                                          *)
(***************************************************************************)
RegistryFrames == DescriptionFrames \cup ValueFrames

RegistryWrites ==
  { << [uid |-> PyInt(999), value |-> PyInt(0)] >>,
    << [uid |-> PyInt(2), value |-> PyInt(3)] >> }

RegistryPrograms ==
  { << [program |-> PyInt(4), options |-> << [uid |-> PyInt(999), value |-> PyInt(0)] >>] >> }

NextRegistry ==
  \/ \E f \in RegistryFrames : Recv(f)
  \/ \E req \in HostRequests : HostCall(req)
  \/ HostLoad        \* no handshake here: the increment raises on None
  \/ \E d \in RegistryWrites : TestFeature(d)
  \/ \E d \in RegistryPrograms : TestProgramData(d)

SpecRegistry == Init /\ [][NextRegistry]_vars

(***************************************************************************)
(* Specification: the registry accesses step by step. Two receive          *)
(* contexts handle inbound frames and a third calls test_feature; a        *)
(* context is "in" an access from the statement that first touches         *)
(* self.features to the one that last does.                                *)
(***************************************************************************)
LockChangeFrames ==
  { Inbound("/ro/descriptionChange", "NOTIFY",
            << [uid |-> PyInt(2), access |-> "READ"] >>),
    Inbound("/ro/descriptionChange", "NOTIFY",
            << [uid |-> PyInt(999), access |-> "readWrite", min |-> PyInt(0)] >>) }

LockValueFrames ==
  { Inbound("/ro/values", "NOTIFY", << [uid |-> PyInt(2), value |-> PyInt(3)] >>),
    Inbound("/ro/values", "NOTIFY", << [uid |-> PyInt(999), value |-> PyInt(0)] >>) }

\* 'with self.features_lock:' of the description-change branch: blocks
\* until the lock is free, then takes it
ChangeEnter(c, f) ==
  /\ access[c].op = "none"
  /\ features_lock = "free"
  /\ features_lock' = c
  /\ access' = [access EXCEPT ![c] = [op |-> "change", input |-> f]]
  /\ UNCHANGED << device, connected, rx, runs, host, replies, handed, session,
                  counter, runSent, closes, via, verdict, status_info, sent >>

\* the loop over the changes, and the end of the with block
ChangeExit(c) ==
  /\ access[c].op = "change"
  /\ rx.pc = "idle"
  /\ handle_message(access[c].input)
  /\ via' = c
  /\ features_lock' = "free"
  /\ access' = [access EXCEPT ![c] = NoAccess]
  /\ UNCHANGED << debug, connected, session_id, tx_msg_id, runs, host, replies,
                  handed, counter, runSent, closes, verdict, status_info, sent >>

\* parse_values_new is entered from the values branch: 'if not
\* self.features' is its first read of the registry; no lock is taken
DecodeEnter(c, f) ==
  /\ access[c].op = "none"
  /\ access' = [access EXCEPT ![c] = [op |-> "decode", input |-> f]]
  /\ UNCHANGED << device, connected, rx, runs, host, replies, handed, session,
                  counter, runSent, closes, via, verdict, status_info, features_lock, sent >>

\* the loop over the batch reads self.features per entry; the batch is
\* decoded with the registry as it is by then
DecodeExit(c) ==
  /\ access[c].op = "decode"
  /\ rx.pc = "idle"
  /\ handle_message(access[c].input)
  /\ via' = c
  /\ access' = [access EXCEPT ![c] = NoAccess]
  /\ UNCHANGED << debug, connected, session_id, tx_msg_id, runs, host, replies,
                  handed, counter, runSent, closes, verdict, status_info,
                  features_lock, sent >>

\* 'with self.features_lock:' of test_feature
ValidateEnter(d) ==
  /\ access["host"].op = "none"
  /\ features_lock = "free"
  /\ features_lock' = "host"
  /\ access' = [access EXCEPT !["host"] = [op |-> "test_feature", input |-> d]]
  /\ UNCHANGED << device, connected, rx, runs, host, replies, handed, session,
                  counter, runSent, closes, via, verdict, status_info, sent >>

\* the lookup of the descriptor, the end of the with block, and the checks
\* on the descriptor read
ValidateExit ==
  /\ access["host"].op = "test_feature"
  /\ verdict' = [fn |-> "test_feature", data |-> access["host"].input,
                 out |-> test_feature(debug, features, access["host"].input)]
  /\ features_lock' = "free"
  /\ access' = [access EXCEPT !["host"] = NoAccess]
  /\ UNCHANGED << device, connected, rx, runs, host, replies, handed, session,
                  counter, runSent, closes, via, status_info, sent >>

NextLock ==
  \/ \E c \in Receivers, f \in LockChangeFrames : ChangeEnter(c, f)
  \/ \E c \in Receivers : ChangeExit(c)
  \/ \E c \in Receivers, f \in LockValueFrames : DecodeEnter(c, f)
  \/ \E c \in Receivers : DecodeExit(c)
  \/ \E d \in RegistryWrites : ValidateEnter(d)
  \/ ValidateExit

SpecLock == Init /\ [][NextLock]_vars

(***************************************************************************)
(* Claims                                                                  *)
(***************************************************************************)

\* C1: within one session (from one /ei/initialValues handshake to the
\* next) no two messages handed to the transport by get() carry the same
\* msgID, whatever the interleaving of the negotiation thread and the host
\* caller.
C1_NoMsgIdReuse == session.epoch >= 1 => ~session.reused

\* C2: with the counter at N (the value the handshake set) and K get()
\* calls returned since, tx_msg_id is N + K, whatever frames were handled
\* in between and however the calls interleaved.
C2_CounterIsBasePlusCalls ==
  counter.base # None => tx_msg_id = counter.base + counter.done

\* a step in which a get() call that has handed its message to the
\* transport ends
GetEnds ==
  \/ host.ph \in {"sent", "loaded"} /\ host'.ph = "idle"
  \/ \E t \in Runs : /\ runs[t].ph \in {"sent", "loaded"}
                     /\ runs'[t].ph \notin {"sent", "loaded"}

\* a step in which get() hands a message to the transport
GetSends == handed' = handed + 1 /\ replies' = replies

\* C3: every get() call that reaches the transport send stamps the message
\* with the current tx_msg_id, and then increments tx_msg_id by exactly
\* one, whether the send succeeded or raised.
C3_SentGetIncrementsByOne ==
  [][ /\ (GetSends => tx_msg_id \in session'.ids)
      /\ (GetEnds => tx_msg_id' = tx_msg_id + 1) ]_vars

\* the payload of req is one the validator of its resource rejects
RejectedPayload(req) ==
  /\ req.action = "POST"
  /\ req.data.kind # "none"
  /\ \/ /\ req.resource = "/ro/values"
        /\ test_feature(debug, features, AsList(req.data)) = Reject
     \/ /\ req.resource \in {"/ro/activeProgram", "/ro/selectedProgram"}
        /\ test_program_data(features, AsList(req.data)) = Reject

\* C4: with debug off, a get() POST with a payload to /ro/values,
\* /ro/activeProgram or /ro/selectedProgram that the validator rejects (one
\* rejected entry is enough) raises to the caller and hands nothing to the
\* transport.
C4_RejectedPostNotSent ==
  [][ (debug = FALSE /\ host'.calls # host.calls) =>
        \A req \in HostRequests :
          (RejectedPayload(req) /\ HostCall(req))
            => /\ handed' = handed
               /\ host'.ph = "idle"
               /\ host'.out = "rejected"
               /\ tx_msg_id' = tx_msg_id ]_vars

\* C4 witness: a host call was rejected and nothing has been sent
C4_Witness ==
  /\ debug = FALSE
  /\ host.out = "rejected"
  /\ host.calls = 1
  /\ handed = replies.n
  /\ session_id # None

\* the receive context executes the given statement of the handshake branch
HsStep(step) == rx.pc = "hs" /\ HandshakeOrder[rx.i] = step /\ rx' # rx

\* C5: handling POST /ei/initialValues sets session_id to the frame's sID
\* and tx_msg_id to data[0].edMsgID, sends exactly one RESPONSE with the
\* frame's sID, msgID, resource and version, which leaves tx_msg_id alone,
\* and that reply goes out before any message of the negotiation it starts.
C5_HandshakeReply ==
  [][ /\ HsStep("sid") => session_id' = rx.msg.sID /\ replies' = replies
      /\ HsStep("txid") => /\ tx_msg_id' = rx.msg.data[1].edMsgID
                           /\ replies' = replies
      /\ HsStep("reply") =>
           /\ replies'.n = replies.n + 1
           /\ replies'.last.sID = rx.msg.sID
           /\ replies'.last.msgID = rx.msg.msgID
           /\ replies'.last.resource = rx.msg.resource
           /\ replies'.last.version = rx.msg.version
           /\ replies'.last.action = "RESPONSE"
           /\ tx_msg_id' = tx_msg_id
      /\ HsStep("thread") =>
           /\ replies' = replies
           /\ replies.last.msgID = rx.msg.msgID
           /\ session_id = rx.msg.sID
           /\ counter.base = rx.msg.data[1].edMsgID
      /\ \A t \in Runs : runSent'[t] # <<>> => replies'.n >= t ]_vars

\* C5 witness: the handshake was answered and its negotiation is sending
C5_Witness ==
  /\ replies.n = 1
  /\ replies.last.msgID = 70
  /\ session_id = 11
  /\ runSent[1] # <<>>

\* C6: a negotiation run sends /ci/services first, and sends none of its
\* later requests before the service catalog response of its session has
\* been received and recorded.
C6_CatalogBeforeRequests ==
  [][ \A t \in Runs :
        Len(runSent'[t]) > Len(runSent[t]) =>
          IF Len(runSent[t]) = 0
          THEN runSent'[t][1] = "/ci/services"
          ELSE session.catalog ]_vars

\* the order the spec gives for the requests of one run
NegotiationOrder ==
  << "/ci/services", "/ci/authentication", "/ci/info", "/iz/info",
     "/ei/deviceReady", "/ni/info", "/ro/allMandatoryValues", "/ro/values",
     "/ro/allDescriptionChanges" >>

\* C7: one run hands its requests to the transport in the order
\* authentication, info, device-ready, network info, all mandatory values,
\* all values, all description changes, whatever else interleaves.
C7_NegotiationOrder ==
  \A t \in Runs :
    /\ Len(runSent[t]) <= Len(NegotiationOrder)
    /\ runSent[t] = SubSeq(NegotiationOrder, 1, Len(runSent[t]))

\* C7 witness: a run has sent its whole sequence while the host called get()
C7_Witness ==
  \E t \in Runs : /\ runs[t].ph = "done"
                  /\ Len(runSent[t]) = 9
                  /\ host.out = "returned"

\* C8: handle_message returns for /ei/initialValues without waiting for the
\* catalog: while a negotiation run polls, the receive context is idle and
\* takes the /ci/services response.
C8_ReceiveNotBlocked ==
  \A t \in Runs :
    runs[t].ph = "wait" =>
      /\ rx.pc = "idle"
      /\ connected => \A f \in CatalogFrames : ENABLED OnMessage(f)

\* C8 witness: the catalog was recorded while the run was still in its wait
\* loop
C8_Witness ==
  \E t \in Runs : /\ runs[t].ph = "wait"
                  /\ services_initialized
                  /\ rx.pc = "idle"
                  /\ replies.n = 1

\* C9: when the transport closes, session id and sequence counter are
\* cleared, and no get() increments the counter between the close and the
\* next handshake.
C9_CloseTearsDown ==
  [][ /\ (connected /\ ~connected') => (session_id' = None /\ tx_msg_id' = None)
      /\ (closes.since /\ closes'.since) => tx_msg_id' = tx_msg_id ]_vars

\* C10: a frame with a top-level code field, whatever its resource and
\* action, yields exactly {error: code, resource} and changes nothing else:
\* no field of the device, no reply, no negotiation thread.
C10_ErrorFrameOnlyReports ==
  [][ \A f \in AllFrames :
        ("code" \in DOMAIN f /\ OnMessage(f))
          => /\ rx'.result = [kind |-> "error", error |-> f.code,
                              resource |-> f.resource]
             /\ rx'.pc = "idle"
             /\ UNCHANGED << device, replies, handed, runs, session >> ]_vars

\* C10 witness: an error frame was reported in an established session
C10_Witness ==
  /\ rx.result.kind = "error"
  /\ rx.result.resource = "/ei/initialValues"
  /\ session_id # None
  /\ services_initialized
  /\ token # NoToken
  /\ "999" \in DOMAIN features

\* C11: a malformed frame (not JSON, no resource or action, a payload
\* field missing) ends as an empty result on both receive paths, recv() and
\* _on_message: the exception never leaves frame handling, and the receive
\* context is ready for the next frame.
C11_MalformedFrameContained ==
  [][ /\ \A f \in MalformedFrames :
           ((OnMessage(f) \/ Recv(f)) /\ rx'.pc = "idle")
             => Delivered' \in {Empty, NoneResult}
      /\ (rx.pc = "hs" /\ rx.msg \in MalformedFrames /\ rx'.pc = "idle")
           => Delivered' \in {Empty, NoneResult} ]_vars

\* C12: for a RESPONSE or NOTIFY without code, handle_message returns the
\* first payload element verbatim for /iz/info, /ci/info and /ni/info, the
\* decoded tree for /ro/allMandatoryValues and /ro/values, and the empty
\* result for description changes, the service catalog, authentication,
\* /ni/config, /ci/registeredDevices, /ci/tzInfo and unrecognised resources.
C12_ResultByResource ==
  [][ \A f \in PlainFrames :
        (f.action \in {"RESPONSE", "NOTIFY"} /\ OnMessage(f)) =>
          CASE f.resource \in {"/iz/info", "/ci/info", "/ni/info"} ->
                 rx'.result = IF "data" \in DOMAIN f /\ Len(f.data) > 0
                              THEN [kind |-> "info", body |-> f.data[1]]
                              ELSE Empty
            [] f.resource \in {"/ro/allMandatoryValues", "/ro/values"} ->
                 IF "data" \in DOMAIN f
                 THEN LET tree == parse_values_new(features, f.data) IN
                        IF IsFault(tree) THEN rx'.result = Raised
                        ELSE rx'.result = [kind |-> "values", tree |-> tree]
                 ELSE rx'.result = Empty
            [] OTHER -> rx'.result = Empty ]_vars

\* C12 witness: a decoded tree was returned after a catalog, a token and a
\* description change had been handled with empty results
C12_Witness ==
  /\ rx.result.kind = "values"
  /\ "common" \in DOMAIN rx.result.tree
  /\ services_initialized
  /\ token # NoToken
  /\ "999" \in DOMAIN features

\* a description-change frame with an entry {uid: 999, min: 0} is handled
\* while the registry holds no uid "999"
NewUidChange(f) ==
  /\ OnMessage(f)
  /\ "999" \notin DOMAIN features
  /\ \E i \in 1..Len(f.data) : f.data[i] = [uid |-> PyInt(999), min |-> PyInt(0)]

\* C13 as stated: a description change {uid: 999, min: 0} for a uid not in
\* the registry stores, without raising, a descriptor under "999" whose
\* content is exactly {min: 0}.
C13_NewDescriptorIsMinOnly ==
  [][ \A f \in ChangeFrames :
        NewUidChange(f) =>
          /\ "999" \in DOMAIN features'
          /\ features'["999"] = [min |-> PyInt(0)]
          /\ rx'.result = Empty ]_vars

\* C13 amended: the descriptor stored under "999" is the change entry as
\* received, {uid: 999, min: 0}: the partial field and the entry's own uid,
\* no name, access, values or max; nothing is raised and the descriptors
\* of the other uids keep their names.
C13_NewDescriptorIsEntry ==
  [][ \A f \in ChangeFrames :
        NewUidChange(f) =>
          /\ "999" \in DOMAIN features'
          /\ features'["999"] = [uid |-> PyInt(999), min |-> PyInt(0)]
          /\ DOMAIN features' = DOMAIN features \cup {"999"}
          /\ rx'.result = Empty ]_vars

\* C13 witness: the descriptor for "999" is in the registry after a
\* description change was handled with the empty result
C13_Witness ==
  /\ "999" \in DOMAIN features
  /\ "min" \in DOMAIN features["999"]
  /\ rx.result = Empty
  /\ via = "listen"

\* the descriptor a write entry names, when its uid is an integer the
\* registry holds
Named(e) ==
  /\ "uid" \in DOMAIN e
  /\ IsInstanceInt(e.uid)
  /\ Str(e.uid) \in DOMAIN features

AccessOf(e) ==
  IF Named(e) /\ "access" \in DOMAIN features[Str(e.uid)]
  THEN Lower(features[Str(e.uid)].access) ELSE "none"

\* the entry's value is an integer key of the values map where one is
\* declared, not below min where min is declared, not above max where max is
InsideBounds(e) ==
  /\ "value" \in DOMAIN e
  /\ LET d == features[Str(e.uid)]
         v == e.value
     IN /\ ("values" \in DOMAIN d => IsInstanceInt(v) /\ Str(v) \in DOMAIN d.values)
        /\ ("min" \in DOMAIN d => IsInstanceInt(v) /\ Num(v) >= IntOf(d.min))
        /\ ("max" \in DOMAIN d => IsInstanceInt(v) /\ Num(v) <= IntOf(d.max))

\* a step that applies test_feature
FeatureTested == verdict' # verdict /\ verdict'.fn = "test_feature"

\* C14: test_feature rejects every payload with an entry whose descriptor
\* has access readonly, in any letter case and whatever the value; it
\* accepts a payload all of whose entries name a descriptor with access
\* readwrite or writeonly, in any letter case, and carry a value inside the
\* declared bounds.
C14_AccessDecides ==
  [][ FeatureTested =>
        LET data == verdict'.data IN
          /\ (\E i \in 1..Len(data) : AccessOf(data[i]) = "readonly")
                => verdict'.out = Reject
          /\ (\A i \in 1..Len(data) :
                 /\ AccessOf(data[i]) \in {"readwrite", "writeonly"}
                 /\ InsideBounds(data[i]))
                => verdict'.out = Accept ]_vars

\* the entry names a writable descriptor and carries a value
WritableWithValue(e) ==
  AccessOf(e) \in {"readwrite", "writeonly"} /\ "value" \in DOMAIN e

\* the entry's value is an integer within the bounds its descriptor declares
InRange(e) ==
  LET d == features[Str(e.uid)]
      v == e.value
  IN /\ IsInstanceInt(v)
     /\ ("min" \in DOMAIN d => Num(v) >= IntOf(d.min))
     /\ ("max" \in DOMAIN d => Num(v) <= IntOf(d.max))

\* the entry's value equals a bound its descriptor declares
OnBound(e) ==
  LET d == features[Str(e.uid)]
      v == e.value
  IN /\ IsInstanceInt(v)
     /\ \/ "min" \in DOMAIN d /\ Num(v) = IntOf(d.min)
        \/ "max" \in DOMAIN d /\ Num(v) = IntOf(d.max)

\* C15: for a writable feature, test_feature rejects a value that is not
\* an integer key of the declared values map; rejects a value that is not
\* an integer within the declared min and max, also when only one of the
\* two is declared; and accepts a value equal to min or to max.
C15_ValueChecked ==
  [][ FeatureTested =>
        LET data == verdict'.data
            desc(i) == features[Str(data[i].uid)]
        IN
          /\ (\E i \in 1..Len(data) :
                 /\ WritableWithValue(data[i])
                 /\ "values" \in DOMAIN desc(i)
                 /\ ~(/\ IsInstanceInt(data[i].value)
                      /\ Str(data[i].value) \in DOMAIN desc(i).values))
                => verdict'.out = Reject
          /\ (\E i \in 1..Len(data) :
                 /\ WritableWithValue(data[i])
                 /\ {"min", "max"} \cap DOMAIN desc(i) # {}
                 /\ ~InRange(data[i]))
                => verdict'.out = Reject
          /\ (\A i \in 1..Len(data) :
                 /\ WritableWithValue(data[i])
                 /\ "values" \notin DOMAIN desc(i)
                 /\ OnBound(data[i])
                 /\ InRange(data[i]))
                => verdict'.out = Accept ]_vars

\* a step that applies test_program_data
ProgramTested == verdict' # verdict /\ verdict'.fn = "test_program_data"

\* the entry's program is an integer uid the registry holds
ProgramPresent(e) ==
  /\ "program" \in DOMAIN e
  /\ IsInstanceInt(e.program)
  /\ Str(e.program) \in DOMAIN features

\* some option of the entry has a uid the registry does not hold
OptionMissing(e) ==
  /\ "options" \in DOMAIN e
  /\ \E j \in 1..Len(e.options) :
        /\ "uid" \in DOMAIN e.options[j]
        /\ Str(e.options[j].uid) \notin DOMAIN features

\* every option of the entry has a uid the registry holds
OptionsPresent(e) ==
  "options" \in DOMAIN e =>
     \A j \in 1..Len(e.options) :
        /\ "uid" \in DOMAIN e.options[j]
        /\ Str(e.options[j].uid) \in DOMAIN features

\* C16: test_program_data rejects a payload with an entry whose program uid
\* is not in the registry, one whose program descriptor has a name without
\* ".Program.", and one with an option uid that is not in the registry; it
\* accepts a payload all of whose entries have a program that is present
\* and marked, or present without a name, with all option uids present.
C16_ProgramChecked ==
  [][ ProgramTested =>
        LET data == verdict'.data IN
          /\ (\E i \in 1..Len(data) :
                 /\ "program" \in DOMAIN data[i]
                 /\ Str(data[i].program) \notin DOMAIN features)
                => verdict'.out = Reject
          /\ (\E i \in 1..Len(data) :
                 /\ ProgramPresent(data[i])
                 /\ "name" \in DOMAIN features[Str(data[i].program)]
                 /\ ~HasProgramMarker(features[Str(data[i].program)].name))
                => verdict'.out = Reject
          /\ (\E i \in 1..Len(data) : OptionMissing(data[i]))
                => verdict'.out = Reject
          /\ (\A i \in 1..Len(data) :
                 /\ ProgramPresent(data[i])
                 /\ ("name" \in DOMAIN features[Str(data[i].program)]
                       => HasProgramMarker(features[Str(data[i].program)].name))
                 /\ OptionsPresent(data[i]))
                => verdict'.out = Accept ]_vars

\* C16 witness: a payload of two entries was accepted, one with a marked
\* program, one with a program whose descriptor has no name
C16_Witness ==
  /\ verdict.fn = "test_program_data"
  /\ verdict.out = Accept
  /\ Len(verdict.data) = 2
  /\ \E i \in 1..2 : "name" \notin DOMAIN features[Str(verdict.data[i].program)]
  /\ \E i \in 1..2 : "name" \in DOMAIN features[Str(verdict.data[i].program)]

RECURSIVE LeafAt(_, _)
\* what a tree holds at a path; Fault where the path leaves the tree
LeafAt(tree, path) ==
  IF path = <<>> THEN tree
  ELSE IF IsDict(tree) /\ Head(path) \in DOMAIN tree
  THEN LeafAt(tree[Head(path)], Tail(path))
  ELSE Fault

\* the batch of the frame is one entry with an integer raw value that is a
\* key of the values map of its feature
EnumeratedEntry(f) ==
  /\ "data" \in DOMAIN f
  /\ Len(f.data) = 1
  /\ {"uid", "value"} \subseteq DOMAIN f.data[1]
  /\ f.data[1].value.t = "int"
  /\ Str(f.data[1].uid) \in DOMAIN features
  /\ "values" \in DOMAIN features[Str(f.data[1].uid)]
  /\ Str(f.data[1].value) \in DOMAIN features[Str(f.data[1].uid)].values

\* the three maps named as collapsing to a boolean
SpecialMaps ==
  { "0" :> "Off" @@ "1" :> "Present" @@ "2" :> "Confirmed",
    "0" :> "Off" @@ "1" :> "On",
    "0" :> "Open" @@ "1" :> "Closed" }

\* C17: for a feature whose values map is exactly {"0": "Off", "1": "On"}
\* raw value 1 decodes to true and raw value 0 to false; for a values map
\* that is none of the three special maps (same keys with other labels, or
\* a superset of a special map) the label is returned as a string.
C17_CollapseOnlyExactMaps ==
  [][ \A f \in CodecFrames :
        (EnumeratedEntry(f) /\ PollStep(f)) =>
          LET d == features[Str(f.data[1].uid)]
              v == f.data[1].value
              leaf == LeafAt(rx'.result.tree, Tail(LowerName(d.name)))
          IN /\ rx'.result.kind = "values"
             /\ (d.values = ("0" :> "Off" @@ "1" :> "On"))
                  => leaf = PyBool(v.v = 1)
             /\ (d.values \notin SpecialMaps)
                  => leaf = PyStr(d.values[Str(v)]) ]_vars

\* C17 witness: 1 under {"0": "Off", "1": "On", "2": "Auto"} was decoded to
\* the string "On" and merged into the accumulated tree, which holds true
\* for the feature with the map {"0": "Off", "1": "On"}
C17_Witness ==
  /\ LeafAt(status_info, <<"common", "setting", "light">>) = PyStr("On")
  /\ LeafAt(status_info, <<"common", "setting", "childlock">>) = PyBool(TRUE)
  /\ LeafAt(rx.result.tree, <<"common", "setting", "light">>) = PyStr("On")

\* the batch [{uid: 512, value: 0}] is decoded over a registry in which
\* uid "512" is BSH.Common.Status.DoorState with {"0": "Open", "1": "Closed"}
DoorOpenDecoded ==
  /\ "512" \in DOMAIN features
  /\ features["512"].name = <<"BSH", "Common", "Status", "DoorState">>
  /\ features["512"].values = ("0" :> "Open" @@ "1" :> "Closed")
  /\ PollStep(Inbound("/ro/values", "NOTIFY",
                       << [uid |-> PyInt(512), value |-> PyInt(0)] >>))

\* C18 as stated: with uid "512" named BSH.Common.Status.DoorState with
\* values {"0": "Open", "1": "Closed"}, decoding [{uid: 512, value: 0}]
\* yields the tree {"doorstate": true}.
C18_DoorStateFlat ==
  [][ DoorOpenDecoded =>
        /\ rx'.result.kind = "values"
        /\ rx'.result.tree = ("doorstate" :> PyBool(TRUE)) ]_vars

\* C18 amended: the decoding yields {"common": {"status": {"doorstate":
\* true}}}: the segments after the first, lower-cased, as nested keys, the
\* last one holding the boolean.
C18_DoorStateNested ==
  [][ DoorOpenDecoded =>
        /\ rx'.result.kind = "values"
        /\ rx'.result.tree =
             ("common" :> ("status" :> ("doorstate" :> PyBool(TRUE)))) ]_vars

\* C18 witness: the last frame decoded gave true for the door state of uid
\* "512", and the accumulated tree holds it
C18_Witness ==
  /\ "512" \in DOMAIN features
  /\ rx.result.kind = "values"
  /\ DOMAIN rx.result.tree = {"common"}
  /\ LeafAt(rx.result.tree, <<"common", "status", "doorstate">>) = PyBool(TRUE)
  /\ LeafAt(status_info, <<"common", "status", "doorstate">>) = PyBool(TRUE)

\* the path at which the codec writes the value of a uid: the lower-cased
\* name segments after the first, or the uid itself without a name
PathOf(uid) ==
  LET u == Str(uid)
      name == IF u \in DOMAIN features /\ "name" \in DOMAIN features[u]
              THEN LowerName(features[u].name) ELSE << u >>
  IN IF Len(name) > 1 THEN Tail(name) ELSE name

\* the tree has a node, leaf or subtree, at the path
HasPath(tree, path) == ~IsFault(LeafAt(tree, path))

\* the uids a value entry can carry
EntryUids ==
  { PyInt(n) : n \in {1, 2, 3, 4, 5, 512, 514, 515, 517, 519, 999} }

\* C19: merging never drops what an earlier entry wrote: the tree decoded
\* from a batch has a node at the path of every entry of the batch, and
\* every feature path present in the accumulated tree is still present
\* after the next decoded batch is merged into it, also when one feature's
\* path is a prefix of another's.
C19_NoPathDropped ==
  [][ \A f \in CodecFrames :
        (PollStep(f) /\ rx'.result.kind = "values") =>
          /\ \A i \in 1..Len(f.data) :
                HasPath(rx'.result.tree, PathOf(f.data[i].uid))
          /\ \A uid \in EntryUids :
                HasPath(status_info, PathOf(uid))
                  => HasPath(status_info', PathOf(uid)) ]_vars

\* the resources of the negotiation sequence, in order
NegotiationResources ==
  [i \in 1..NumRequests |-> ReconnectRequests(Nonce)[i].resource]

\* C20: when every runnable negotiation thread eventually runs, a thread
\* started by a handshake, once a /ci/services RESPONSE or NOTIFY without
\* code has set services_initialized, eventually leaves its wait loop,
\* hands every request of the sequence to the transport and ends.
C20_NegotiationCompletes ==
  \A t \in Runs :
    (runs[t].ph # "unborn" /\ services_initialized)
      ~> (runs[t].ph = "done" /\ runSent[t] = NegotiationResources)

\* C20 witness: a thread has ended after the catalog arrived in its own
\* session, with its nine requests handed to the transport
C20_Witness ==
  \E t \in Runs :
    /\ runs[t].ph = "done"
    /\ services_initialized
    /\ session.catalog
    /\ runSent[t] = NegotiationResources
    /\ Len(runSent[t]) = 9

\* C21: the per-service version table is populated once per session: once
\* a /ci/services frame has been recorded since the handshake, no step
\* (a second catalog frame included) changes the table.
C21_ServicesWrittenOnce ==
  [][ (services_initialized /\ session.catalog) => services' = services ]_vars

\* the fields a description change can set
ChangeFields == {"access", "available", "min", "max"}

\* the entries of a frame's payload that name the uid
EntriesFor(f, u) == { i \in 1..Len(f.data) : Str(f.data[i].uid) = u }

\* C22: a description-change entry for a uid already in the registry sets
\* only those of access, available, min and max that the entry carries;
\* name, values and every field the entry does not carry keep their
\* values, and so do all other descriptors.
C22_ChangeMergesPresentFields ==
  [][ \A f \in DescriptionFrames :
        (verdict' = verdict /\ Recv(f)) =>
          \A u \in DOMAIN features :
            LET carried == UNION { DOMAIN f.data[i] \cap ChangeFields :
                                   i \in EntriesFor(f, u) }
            IN /\ u \in DOMAIN features'
               /\ DOMAIN features'[u] = DOMAIN features[u] \cup carried
               /\ \A k \in DOMAIN features[u] \ carried :
                     features'[u][k] = features[u][k]
               /\ \A i \in EntriesFor(f, u) :
                     \A k \in DOMAIN f.data[i] \cap ChangeFields :
                        features'[u][k] = f.data[i][k] ]_vars

\* C22 witness: uid 1 has the access level of a change that also carried a
\* values map, with its own name and values map, and uid 2 has the min of
\* a change, with its own max
C22_Witness ==
  /\ features["1"].access = "WRITEONLY"
  /\ features["1"].values = ("1" :> "Off" @@ "2" :> "On")
  /\ features["1"].name = <<"BSH", "Common", "Setting", "PowerState">>
  /\ features["2"].min = PyInt(1)
  /\ features["2"].max = PyInt(3)
  /\ features["2"].available = TRUE

\* C23: the set of uids in the feature registry never shrinks: whatever
\* inbound frame is handled, get() is called, batch is decoded or payload
\* is validated, every uid of the registry is still in it afterwards.
C23_RegistryNeverShrinks ==
  [][ DOMAIN features \subseteq DOMAIN features' ]_vars

\* C23 witness: descriptors were added for unseen uids, a batch was
\* decoded, get() was called and a validator was applied, and the uids
\* the registry started with are all there
C23_Witness ==
  /\ {"996", "997", "998", "999"} \subseteq DOMAIN features
  /\ DOMAIN InitialFeatures \subseteq DOMAIN features
  /\ rx.result.kind = "values"
  /\ host.calls > 0
  /\ verdict.fn # "none"

\* C24: every read and every write of the feature registry happens while
\* the accessing context holds features_lock: a context that is in a
\* description-change write, a validator read or a value-codec read is
\* the holder of the lock (so no read overlaps another context's write).
C24_AccessUnderLock ==
  \A c \in Contexts : access[c].op # "none" => features_lock = c

\* a value batch whose entries all carry uid and value
CompleteBatch(f) ==
  /\ "data" \in DOMAIN f
  /\ Len(f.data) > 0
  /\ \A i \in 1..Len(f.data) : {"uid", "value"} \subseteq DOMAIN f.data[i]

\* C25: an identifier unknown to the registry never makes decoding fatal:
\* handling a value batch whose entries are complete, including one with
\* an option or details entry whose uid has no named descriptor, returns
\* the decoded tree of the batch rather than raising.
C25_UnknownOptionDecodes ==
  [][ \A f \in ValueFrames :
        (CompleteBatch(f) /\ OnMessage(f)) => rx'.result.kind = "values" ]_vars

\* the version get() is to use for a request: the negotiated version of the
\* service named by the second path segment when the catalog is recorded
\* and names the service, the caller's version otherwise
NegotiatedOrCaller(req) ==
  LET service == ServiceOf(req.resource) IN
    IF services_initialized /\ service \in DOMAIN services
    THEN services[service]
    ELSE req.version

\* C26: every message get() hands to the transport, for the host or for the
\* negotiation run, has the negotiated version of its service when the
\* catalog is recorded and lists the service (overriding the caller's
\* version), and the caller's version otherwise.
C26_NegotiatedVersionSent ==
  [][ /\ \A req \in HostRequests :
           (handed' > handed /\ HostCall(req))
             => sent'.version = NegotiatedOrCaller(req)
      /\ \A t \in Runs :
           (handed' > handed /\ RunCall(t))
             => sent'.version = NegotiatedOrCaller(ReconnectRequests(token)[runs[t].pos])
    ]_vars

\* C26 witness: the authentication request, called with version 2, went out
\* with the negotiated version 3 of service ci
C26_Witness ==
  /\ services_initialized
  /\ sent.resource = "/ci/authentication"
  /\ services["ci"] = 3
  /\ sent.version = 3

\* C27: every message get() hands to the transport carries a non-null sID
\* and a non-null msgID, whatever get() calls and inbound frames came
\* before, calls made before the first handshake included.
C27_SentIdsNotNull ==
  handed > 0 => (sent.sID # None /\ sent.msgID # None)

\* C28: a get() call the validator rejects leaves the session state as it
\* was: tx_msg_id, session_id, services and the feature registry are
\* unchanged and nothing is handed to the transport, so the next message
\* sent carries the msgID the rejected call would have carried.
C28_RejectedGetLeavesState ==
  [][ \A req \in HostRequests :
        (host'.calls # host.calls /\ host'.out = "rejected" /\ HostCall(req))
          => /\ tx_msg_id' = tx_msg_id
             /\ session_id' = session_id
             /\ services' = services
             /\ services_initialized' = services_initialized
             /\ features' = features
             /\ sent' = sent
             /\ StampedMsgId' = Stamp(req).msgID ]_vars

\* C28 witness: inside a session, after the negotiation run has sent
\* messages, a host get() was rejected
C28_Witness ==
  /\ host.out = "rejected"
  /\ session.epoch >= 1
  /\ tx_msg_id # None
  /\ handed > 0

\* C29: once services_initialized is true it stays true: no handshake,
\* transport close or error frame resets it or removes a service from the
\* table, so a negotiation run that reaches its catalog wait from then on
\* passes it on its first poll.
C29_CatalogFlagSticks ==
  [][ services_initialized =>
        /\ services_initialized'
        /\ DOMAIN services \subseteq DOMAIN services'
        /\ \A t \in Runs : runs'[t].ph = "wait" => (ENABLED RunPoll(t))' ]_vars

\* C29 witness: the catalog was recorded, the transport closed, a
\* handshake was handled, and the flag is still set when the run of that
\* handshake is at its catalog wait
C29_Witness ==
  /\ services_initialized
  /\ closes.n >= 1
  /\ session.epoch >= 1
  /\ \E t \in Runs : runs[t].ph = "wait"

=============================================================================
